---- MODULE Spec2Model ----
(***************************************************************************)
(* Supply-chain dependency-graph analysis of                               *)
(* src/security/sbom/supply-chain-analyzer.py (class SupplyChainAnalyzer). *)
(*                                                                         *)
(* Python dicts are functions with a finite string domain; dict.get(k, d)  *)
(* is Get(d, k, default).  Python's None is the value None below.  Scores  *)
(* (floats in the code) are kept exactly: risk scores in tenths, the       *)
(* supply-chain score as a fraction num/den of tenths.                     *)
(*                                                                         *)
(* The methods the class calls without defining them (_calculate_max_depth,*)
(* _find_circular_dependencies, _find_orphaned_dependencies, ...) follow   *)
(* the written specification of the graph analyzer.                        *)
(***************************************************************************)
EXTENDS Integers, Sequences, FiniteSets, TLC

VARIABLES
    sbom,       \* the sbom_data argument of analyze_supply_chain
    pc,         \* position inside analyze_supply_chain
    graph,      \* the nx.DiGraph: [nodes, attrs, edges]
    nodes,      \* List[SupplyChainNode] of _analyze_nodes
    edges,      \* List[SupplyChainEdge] of _analyze_edges
    results,    \* analysis_results of _perform_graph_analysis
    analysis,   \* the SupplyChainAnalysis returned (a sequence of 0 or 1)
    error,      \* the exception that left analyze_supply_chain, "" if none
    first_run,  \* outcome of an earlier analyze_supply_chain call (0 or 1)
    faults,     \* the collaborator lookups that raise: <<node id, lookup>>
    predictor,  \* the PerformancePredictor object of the feedback service
    enrichment, \* the coroutines and batch of a running _enrich_dependency_graph
    monitor     \* the ContinuousMonitor object with its AlertManager

vars == <<sbom, pc, graph, nodes, edges, results, analysis, error,
          first_run, faults, predictor, enrichment, monitor>>

----------------------------------------------------------------------------
(* Bounds of the model *)

MaxComponents == 3

MaxDeps == 4

MaxScoreNodes == 2

MaxFindings == 2

----------------------------------------------------------------------------
(* Python values *)

None == "<None>"

EmptyDict == [k \in {} |-> None]

Get(d, k, default) == IF k \in DOMAIN d THEN d[k] ELSE default

\* dict.update: keys of new replace or extend those of old
Update(old, new) ==
    [k \in DOMAIN old \cup DOMAIN new |-> IF k \in DOMAIN new THEN new[k] ELSE old[k]]

\* str(v) as an f-string formats it
Str(v) == IF v = None THEN "None" ELSE v

\* truthiness of a str-or-None value
Truthy(v) == v # None /\ v # ""

Range(s) == {s[i] : i \in 1..Len(s)}

RECURSIVE Concat(_)
Concat(ss) == IF ss = <<>> THEN <<>> ELSE Head(ss) \o Concat(Tail(ss))

RECURSIVE Sum(_)
Sum(s) == IF s = <<>> THEN 0 ELSE Head(s) + Sum(Tail(s))

Max2(a, b) == IF a >= b THEN a ELSE b
Min2(a, b) == IF a <= b THEN a ELSE b

\* the subsequence of pool at the positions in S
Pick(pool, S) ==
    LET F[i \in 0..Len(pool)] ==
            IF i = 0 THEN <<>>
            ELSE IF i \in S THEN Append(F[i - 1], pool[i]) ELSE F[i - 1]
    IN F[Len(pool)]

SeqsUpTo(S, n) == UNION {[1..k -> S] : k \in 0..n}

----------------------------------------------------------------------------
(* Enumerations *)

DependencyTypeValues == {"direct", "transitive", "dev", "peer", "optional"}

TrustLevelValues == {"verified", "trusted", "neutral", "suspicious", "untrusted"}

Registries == {"npm", "pypi", "maven", "nuget", "rubygems"}

----------------------------------------------------------------------------
(* networkx.DiGraph, as far as the analyzer uses it.  nodes keeps insertion
   order without repeats, attrs the attribute dict of each node, edges the
   (source, target) pairs in insertion order without repeats and edata the
   attribute dict of each edge. *)

EmptyGraph == [nodes |-> <<>>, attrs |-> EmptyDict, edges |-> <<>>, edata |-> EmptyDict]

HasNode(g, n) == n \in Range(g.nodes)

HasEdge(g, s, t) == <<s, t>> \in Range(g.edges)

\* graph.add_node(n, **a): a new node is appended, a known one has a merged in
AddNode(g, n, a) ==
    IF HasNode(g, n)
    THEN [g EXCEPT !.attrs = [@ EXCEPT ![n] = Update(@, a)]]
    ELSE [g EXCEPT !.nodes = Append(@, n),
                   !.attrs = Update(@, [k \in {n} |-> a])]

\* graph.add_edge(s, t, **a): endpoints that are no nodes yet become nodes
AddEdge(g, s, t, a) ==
    LET g1 == IF HasNode(g, s) THEN g ELSE AddNode(g, s, EmptyDict)
        g2 == IF HasNode(g1, t) THEN g1 ELSE AddNode(g1, t, EmptyDict)
    IN IF HasEdge(g2, s, t)
       THEN [g2 EXCEPT !.edata = [@ EXCEPT ![<<s, t>>] = Update(@, a)]]
       ELSE [g2 EXCEPT !.edges = Append(@, <<s, t>>),
                       !.edata = Update(@, [k \in {<<s, t>>} |-> a])]

\* graph.edges(): by source in node order, then by adjacency insertion order
GraphEdges(g) ==
    Concat([i \in 1..Len(g.nodes) |-> SelectSeq(g.edges, LAMBDA e : e[1] = g.nodes[i])])

Successors(g, n) == {e[2] : e \in {x \in Range(g.edges) : x[1] = n}}

Predecessors(g, n) == {e[1] : e \in {x \in Range(g.edges) : x[2] = n}}

----------------------------------------------------------------------------
(* SBOM extraction *)

\* one component dict of _extract_components, CycloneDX branch
CdxComponent(c) ==
    [name |-> Get(c, "name", None), version |-> Get(c, "version", None),
     type |-> Get(c, "type", None), purl |-> Get(c, "purl", None),
     scope |-> Get(c, "scope", "required")]

\* one component dict of _extract_components, SPDX branch
SpdxComponent(p) ==
    [name |-> Get(p, "name", None), version |-> Get(p, "versionInfo", "unknown"),
     type |-> "library"]

ExtractComponents(data) ==
    IF Get(data, "bomFormat", None) = "CycloneDX"
    THEN LET cs == Get(data, "components", <<>>)
         IN [i \in 1..Len(cs) |-> CdxComponent(cs[i])]
    ELSE IF Truthy(Get(data, "spdxVersion", None))
    THEN LET ps == Get(data, "packages", <<>>)
         IN [i \in 1..Len(ps) |-> SpdxComponent(ps[i])]
    ELSE <<>>

Dep(s, t) == [source |-> s, target |-> t, type |-> "depends_on"]

CdxDependencies(info) ==
    LET ts == Get(info, "dependsOn", <<>>)
    IN [j \in 1..Len(ts) |-> Dep(Get(info, "ref", None), ts[j])]

SpdxDependencies(rel) ==
    IF Get(rel, "relationshipType", None) = "DEPENDS_ON"
    THEN <<Dep(Get(rel, "spdxElementId", None), Get(rel, "relatedSpdxElement", None))>>
    ELSE <<>>

ExtractDependencies(data) ==
    IF Get(data, "bomFormat", None) = "CycloneDX"
    THEN LET ds == Get(data, "dependencies", <<>>)
         IN Concat([i \in 1..Len(ds) |-> CdxDependencies(ds[i])])
    ELSE IF Truthy(Get(data, "spdxVersion", None))
    THEN LET rs == Get(data, "relationships", <<>>)
         IN Concat([i \in 1..Len(rs) |-> SpdxDependencies(rs[i])])
    ELSE <<>>

NodeId(component) ==
    Str(Get(component, "name", "")) \o "@" \o Str(Get(component, "version", ""))

\* AddComponents keeping one node per component, repeated ids included
AddComponentsKeepRepeats(g, components) ==
    LET F[i \in 0..Len(components)] ==
            IF i = 0 THEN g
            ELSE [F[i - 1] EXCEPT
                    !.nodes = Append(@, NodeId(components[i])),
                    !.attrs = Update(@, [k \in {NodeId(components[i])} |-> components[i]])]
    IN F[Len(components)]

\* the loop of _build_dependency_graph that adds the nodes
AddComponents(g, components) ==
    LET F[i \in 0..Len(components)] ==
            IF i = 0 THEN g
            ELSE AddNode(F[i - 1], NodeId(components[i]), components[i])
    IN F[Len(components)]

\* AddDependency without the has_node test on the target
AddDependencyNoTargetCheck(g, dep) ==
    LET source == Get(dep, "source", None)
        target == Get(dep, "target", None)
    IN IF Truthy(source) /\ Truthy(target) /\ HasNode(g, source)
       THEN AddEdge(g, source, target, dep)
       ELSE g

\* the guard and body of the loop that adds one dependency
AddDependency(g, dep) ==
    LET source == Get(dep, "source", None)
        target == Get(dep, "target", None)
    IN IF Truthy(source) /\ Truthy(target) /\ HasNode(g, source) /\ HasNode(g, target)
       THEN AddEdge(g, source, target, dep)
       ELSE g

AddDependencies(g, dependencies) ==
    LET F[i \in 0..Len(dependencies)] ==
            IF i = 0 THEN g ELSE AddDependency(F[i - 1], dependencies[i])
    IN F[Len(dependencies)]

----------------------------------------------------------------------------
(* Enrichment.  A purl is kept as the prefix it starts with ("pkg:npm/"
   stands for any purl with that prefix); maintainer_reputation is in tenths. *)

ExtractPackageManager(purl) ==
    IF ~Truthy(purl) THEN "unknown"
    ELSE IF purl = "pkg:npm/" THEN "npm"
    ELSE IF purl = "pkg:pypi/" THEN "pypi"
    ELSE IF purl = "pkg:maven/" THEN "maven"
    ELSE IF purl = "pkg:nuget/" THEN "nuget"
    ELSE IF purl = "pkg:gem/" THEN "rubygems"
    ELSE "unknown"

\* the registry clients' get_package_info
GetPackageInfo(name, version) == EmptyDict

GetSecurityInformation(name, version, package_manager) ==
    [vulnerability_count |-> 0, critical_vulnerabilities |-> 0]

GetTrustInformation(name, version, package_manager) ==
    [signed |-> FALSE, maintainer_reputation |-> 5, security_incidents |-> 0]

\* the lookup of node_id raises inside the try block of _enrich_node_data
Fails(node_id, lookup) == <<node_id, lookup>> \in faults

\* the lookups run in order registry, security, trust; the first one that
\* raises ends the try block and the dict filled so far is returned
EnrichNodeData(node_id, node_data) ==
    LET name == Get(node_data, "name", "")
        version == Get(node_data, "version", "")
        package_manager == ExtractPackageManager(Get(node_data, "purl", ""))
        asks_registry == package_manager \in Registries
        registry == IF asks_registry
                    THEN [k \in {"registry_info"} |-> GetPackageInfo(name, version)]
                    ELSE EmptyDict
        security == Update(registry,
                           [k \in {"security_info"} |->
                               GetSecurityInformation(name, version, package_manager)])
        trust == Update(security,
                        [k \in {"trust_info"} |->
                            GetTrustInformation(name, version, package_manager)])
    IN IF asks_registry /\ Fails(node_id, "registry") THEN EmptyDict
       ELSE IF Fails(node_id, "security") THEN registry
       ELSE IF Fails(node_id, "trust") THEN security
       ELSE trust

\* every node's attributes are updated with its own enrichment result
EnrichDependencyGraph(g) ==
    [g EXCEPT !.attrs = [n \in DOMAIN g.attrs |-> Update(g.attrs[n], EnrichNodeData(n, g.attrs[n]))]]

BuildDependencyGraph(data) ==
    EnrichDependencyGraph(
        AddDependencies(AddComponents(EmptyGraph, ExtractComponents(data)),
                        ExtractDependencies(data)))

----------------------------------------------------------------------------
(* Node analysis *)

DetermineDependencyType(node_data, g, node_id) ==
    LET scope == Get(node_data, "scope", "required")
    IN IF scope = "optional" THEN "optional"
       ELSE IF scope = "dev" THEN "dev"
       ELSE IF Predecessors(g, node_id) = {} THEN "direct"
       ELSE "transitive"

\* the security incidents checked before the maintainer reputation
CalculateTrustLevelIncidentsFirst(node_data) ==
    LET trust_info == Get(node_data, "trust_info", EmptyDict)
        maintainer_score == Get(trust_info, "maintainer_reputation", 5)
    IN IF Get(trust_info, "signed", FALSE) THEN "verified"
       ELSE IF Get(trust_info, "security_incidents", 0) > 3 THEN "untrusted"
       ELSE IF maintainer_score > 8 THEN "trusted"
       ELSE IF maintainer_score < 3 THEN "suspicious"
       ELSE "neutral"

CalculateTrustLevel(node_data) ==
    LET trust_info == Get(node_data, "trust_info", EmptyDict)
        maintainer_score == Get(trust_info, "maintainer_reputation", 5)
    IN IF Get(trust_info, "signed", FALSE) THEN "verified"
       ELSE IF maintainer_score > 8 THEN "trusted"
       ELSE IF maintainer_score < 3 THEN "suspicious"
       ELSE IF Get(trust_info, "security_incidents", 0) > 3 THEN "untrusted"
       ELSE "neutral"

\* nx.shortest_path_length(g, source, target) over directed edges;
\* -1 stands for the NetworkXNoPath it raises when target is unreachable
ShortestPathLength(g, source, target) ==
    LET R[k \in 0..Len(g.nodes)] ==
            IF k = 0 THEN {source}
            ELSE R[k - 1] \cup UNION {Successors(g, n) : n \in R[k - 1]}
        ks == {k \in 0..Len(g.nodes) : target \in R[k]}
    IN IF ks = {} THEN -1 ELSE CHOOSE k \in ks : \A j \in ks : k <= j

\* the risk sum if critical vulnerabilities counted once, however many
RawNodeRiskCriticalFlag(node_data, g, node_id) ==
    LET security_info == Get(node_data, "security_info", EmptyDict)
        vuln_count == Get(security_info, "vulnerability_count", 0)
        critical_vulns == Get(security_info, "critical_vulnerabilities", 0)
        registry_info == Get(node_data, "registry_info", EmptyDict)
        age_days == Get(registry_info, "age_days", 365)
        downloads == Get(registry_info, "downloads", 0)
        maintainer_count == Len(Get(registry_info, "maintainers", <<>>))
        depth == ShortestPathLength(g, g.nodes[1], node_id)
    IN (IF critical_vulns > 0 THEN 20 ELSE 0) + vuln_count * 5
       + (IF age_days < 30 THEN 10 ELSE IF age_days > 2000 THEN 5 ELSE 0)
       + (IF downloads < 1000 THEN 10 ELSE IF downloads < 10000 THEN 5 ELSE 0)
       + (IF maintainer_count = 1 THEN 5 ELSE IF maintainer_count = 0 THEN 10 ELSE 0)
       + (IF depth >= 0 THEN depth ELSE 0)

\* risk score before the cap, in tenths
RawNodeRisk(node_data, g, node_id) ==
    LET security_info == Get(node_data, "security_info", EmptyDict)
        vuln_count == Get(security_info, "vulnerability_count", 0)
        critical_vulns == Get(security_info, "critical_vulnerabilities", 0)
        registry_info == Get(node_data, "registry_info", EmptyDict)
        age_days == Get(registry_info, "age_days", 365)
        downloads == Get(registry_info, "downloads", 0)
        maintainer_count == Len(Get(registry_info, "maintainers", <<>>))
        depth == ShortestPathLength(g, g.nodes[1], node_id)
    IN critical_vulns * 20 + vuln_count * 5
       + (IF age_days < 30 THEN 10 ELSE IF age_days > 2000 THEN 5 ELSE 0)
       + (IF downloads < 1000 THEN 10 ELSE IF downloads < 10000 THEN 5 ELSE 0)
       + (IF maintainer_count = 1 THEN 5 ELSE IF maintainer_count = 0 THEN 10 ELSE 0)
       + (IF depth >= 0 THEN depth ELSE 0)

\* _calculate_node_risk_score, in tenths
CalculateNodeRiskScore(node_data, g, node_id) ==
    Min2(RawNodeRisk(node_data, g, node_id), 100)

ExtractMaintainerInfo(node_data) ==
    [maintainers |-> Get(Get(node_data, "registry_info", EmptyDict), "maintainers", <<>>)]

ExtractRepositoryInfo(node_data) == Get(node_data, "registry_info", EmptyDict)

ExtractSecurityMetrics(node_data) == Get(node_data, "security_info", EmptyDict)

\* one SupplyChainNode of _analyze_nodes
AnalyzeNode(g, node_id) ==
    LET node_data == g.attrs[node_id]
    IN [id |-> node_id,
        name |-> Get(node_data, "name", ""),
        version |-> Get(node_data, "version", ""),
        package_manager |-> ExtractPackageManager(Get(node_data, "purl", "")),
        dependency_type |-> DetermineDependencyType(node_data, g, node_id),
        trust_level |-> CalculateTrustLevel(node_data),
        risk_score |-> CalculateNodeRiskScore(node_data, g, node_id),
        maintainer_info |-> ExtractMaintainerInfo(node_data),
        repository_info |-> ExtractRepositoryInfo(node_data),
        security_metrics |-> ExtractSecurityMetrics(node_data),
        metadata |-> node_data]

\* _analyze_nodes if the node list were kept on the analyzer between calls
AnalyzeNodesKeepLast(g) == nodes \o [i \in 1..Len(g.nodes) |-> AnalyzeNode(g, g.nodes[i])]

AnalyzeNodes(g) == [i \in 1..Len(g.nodes) |-> AnalyzeNode(g, g.nodes[i])]

----------------------------------------------------------------------------
(* Edge analysis *)

\* DependencyType(edge_data.get('type', 'direct')) raises ValueError on a
\* value that is no member of the enumeration
EdgeTypeRaises(g, e) == Get(g.edata[e], "type", "direct") \notin DependencyTypeValues

AnalyzeEdgesRaises(g) == \E e \in Range(g.edges) : EdgeTypeRaises(g, e)

FindDependencyIntroducer(g, source, target) == None

CalculateEdgeRiskContribution(g, source, target) ==
    CalculateNodeRiskScore(g.attrs[source], g, source)
    + CalculateNodeRiskScore(g.attrs[target], g, target)

\* one SupplyChainEdge of _analyze_edges
AnalyzeEdge(g, e) ==
    [source_id |-> e[1],
     target_id |-> e[2],
     dependency_type |-> Get(g.edata[e], "type", "direct"),
     version_constraint |-> Get(g.edata[e], "version_constraint", "*"),
     introduced_by |-> FindDependencyIntroducer(g, e[1], e[2]),
     risk_contribution |-> CalculateEdgeRiskContribution(g, e[1], e[2])]

AnalyzeEdges(g) ==
    LET es == GraphEdges(g) IN [i \in 1..Len(es) |-> AnalyzeEdge(g, es[i])]

----------------------------------------------------------------------------
(* Graph analysis *)

IndexOf(s, x) == CHOOSE i \in 1..Len(s) : s[i] = x

\* the sequences of pairwise distinct nodes of g
DistinctNodeSeqs(g) ==
    {p \in UNION {[1..k -> Range(g.nodes)] : k \in 1..Len(g.nodes)} :
        \A i, j \in 1..Len(p) : i # j => p[i] # p[j]}

IsPath(g, p) == \A i \in 1..(Len(p) - 1) : HasEdge(g, p[i], p[i + 1])

\* a set of node sequences as a list, ordered by length and then node order
RECURSIVE SortPaths(_, _)
SortPaths(g, S) ==
    IF S = {} THEN <<>>
    ELSE LET Key(p) == [i \in 1..Len(p) |-> IndexOf(g.nodes, p[i])]
             Before(p, q) ==
                 \/ Len(p) < Len(q)
                 \/ /\ Len(p) = Len(q)
                    /\ \E i \in 1..Len(p) :
                          /\ Key(p)[i] < Key(q)[i]
                          /\ \A j \in 1..(i - 1) : Key(p)[j] = Key(q)[j]
             first == CHOOSE p \in S : \A q \in S \ {p} : Before(p, q)
         IN <<first>> \o SortPaths(g, S \ {first})

Roots(g) == {n \in Range(g.nodes) : Predecessors(g, n) = {}}

Leaves(g) == {n \in Range(g.nodes) : Successors(g, n) = {}}

CalculateMaxDepth(g) ==
    LET ds == {ShortestPathLength(g, r, n) : r \in Roots(g), n \in Range(g.nodes)} \cup {0}
    IN CHOOSE d \in ds : \A e \in ds : e <= d

RiskBucket(risk_score) ==
    IF risk_score < 20 THEN "minimal"
    ELSE IF risk_score < 40 THEN "low"
    ELSE IF risk_score <= 70 THEN "medium"
    ELSE IF risk_score < 90 THEN "high"
    ELSE "critical"

\* the number of entries of ks equal to v, for the values v that occur
CountBy(ks) ==
    [v \in Range(ks) |-> Cardinality({i \in 1..Len(ks) : ks[i] = v})]

CalculateRiskDistribution(ns) ==
    CountBy([i \in 1..Len(ns) |-> RiskBucket(ns[i].risk_score)])

CalculateTrustDistribution(ns) == CountBy([i \in 1..Len(ns) |-> ns[i].trust_level])

\* the simple paths of g from a root to a leaf
RootToLeafPaths(g) ==
    {p \in DistinctNodeSeqs(g) : IsPath(g, p) /\ p[1] \in Roots(g) /\ p[Len(p)] \in Leaves(g)}

RiskOf(ns, id) == (CHOOSE n \in Range(ns) : n.id = id).risk_score

FindCriticalPaths(g, ns) ==
    SortPaths(g, {p \in RootToLeafPaths(g) :
                    Sum([i \in 1..Len(p) |-> RiskOf(ns, p[i])]) > 70})

VulnCountOf(ns, id) ==
    Get((CHOOSE n \in Range(ns) : n.id = id).security_metrics, "vulnerability_count", 0)

FindVulnerablePaths(g, ns) ==
    SortPaths(g, {p \in RootToLeafPaths(g) : \E i \in 1..Len(p) : VulnCountOf(ns, p[i]) # 0})

FindOrphanedDependencies(g) ==
    SelectSeq(g.nodes, LAMBDA n : Predecessors(g, n) = {} /\ Successors(g, n) = {})

\* every simple cycle once, written from its first node in node order
SimpleCycles(g) ==
    {p \in DistinctNodeSeqs(g) :
        /\ IsPath(g, p)
        /\ HasEdge(g, p[Len(p)], p[1])
        /\ \A i \in 2..Len(p) : IndexOf(g.nodes, p[1]) < IndexOf(g.nodes, p[i])}

FindCircularDependencies(g) == SortPaths(g, SimpleCycles(g))

\* the nodes of S reachable from n over edges taken in either direction
UndirectedReach(g, S, n) ==
    LET Nbrs(x) == (Successors(g, x) \cup Predecessors(g, x)) \cap S
        R[k \in 0..Len(g.nodes)] ==
            IF k = 0 THEN {n} ELSE R[k - 1] \cup UNION {Nbrs(x) : x \in R[k - 1]}
    IN R[Len(g.nodes)]

ComponentCount(g, S) == Cardinality({UndirectedReach(g, S, n) : n \in S})

\* articulation points of the undirected projection
FindSinglePointsOfFailure(g) ==
    SelectSeq(g.nodes, LAMBDA n :
        ComponentCount(g, Range(g.nodes) \ {n}) > ComponentCount(g, Range(g.nodes)))

\* the three networkx calls of lines 508-510, in the order of the code
CentralityMeasures == <<"betweenness_centrality", "closeness_centrality", "pagerank">>

\* the key under which faults records a failing computation on the graph
GraphKey == "<graph>"

\* a centrality computation that raises; nothing encloses the three calls,
\* so its exception leaves _perform_graph_analysis
CentralityRaises == \E i \in 1..Len(CentralityMeasures) : Fails(GraphKey, CentralityMeasures[i])

\* the fields computed before the centrality calls; the betweenness,
\* closeness and pagerank dictionaries are auxiliary entries that no field
\* of the SupplyChainAnalysis reads
PerformGraphAnalysis(g, ns, es) ==
    [max_depth |-> CalculateMaxDepth(g),
     average_degree_num |-> IF Len(g.nodes) > 0 THEN 2 * Len(g.edges) ELSE 0,
     average_degree_den |-> IF Len(g.nodes) > 0 THEN Len(g.nodes) ELSE 1,
     risk_distribution |-> CalculateRiskDistribution(ns),
     trust_distribution |-> CalculateTrustDistribution(ns),
     critical_paths |-> FindCriticalPaths(g, ns),
     vulnerable_paths |-> FindVulnerablePaths(g, ns),
     orphaned_dependencies |-> FindOrphanedDependencies(g),
     circular_dependencies |-> FindCircularDependencies(g),
     single_points_of_failure |-> FindSinglePointsOfFailure(g)]

----------------------------------------------------------------------------
(* Risk scorer.  A score is the fraction num/den of tenths: [num |-> 185,
   den |-> 2] is 9.25. *)

HighRiskNodes(ns) == SelectSeq(ns, LAMBDA n : n.risk_score > 70)

UntrustedNodes(ns) == SelectSeq(ns, LAMBDA n : n.trust_level = "untrusted")

\* Penalties counting a risk score of exactly 7.0 as high risk
PenaltiesHighRiskInclusive(ns, res) ==
    Len(res.circular_dependencies) * 5
    + Len(res.single_points_of_failure) * 3
    + Len(res.orphaned_dependencies) * 2
    + Len(SelectSeq(ns, LAMBDA n : n.risk_score >= 70)) * 4
    + Len(UntrustedNodes(ns)) * 6

\* the penalties of _calculate_supply_chain_score, in tenths
Penalties(ns, res) ==
    Len(res.circular_dependencies) * 5
    + Len(res.single_points_of_failure) * 3
    + Len(res.orphaned_dependencies) * 2
    + Len(HighRiskNodes(ns)) * 4
    + Len(UntrustedNodes(ns)) * 6

\* CalculateSupplyChainScore scoring an empty node list as 10.0
CalculateSupplyChainScoreEmptyPerfect(ns, es, res) ==
    IF Len(ns) = 0 THEN [num |-> 100, den |-> 1]
    ELSE LET total == Sum([i \in 1..Len(ns) |-> 100 - ns[i].risk_score])
             shifted == total - Penalties(ns, res) * Len(ns)
         IN [num |-> Max2(0, Min2(100 * Len(ns), shifted)), den |-> Len(ns)]

CalculateSupplyChainScore(ns, es, res) ==
    IF Len(ns) = 0 THEN [num |-> 0, den |-> 1]
    ELSE LET total == Sum([i \in 1..Len(ns) |-> 100 - ns[i].risk_score])
             shifted == total - Penalties(ns, res) * Len(ns)
         IN [num |-> Max2(0, Min2(100 * Len(ns), shifted)), den |-> Len(ns)]

\* the names of all offenders, without the [:3]
FirstNamesAll(hit) == [i \in 1..Len(hit) |-> hit[i].name]

\* ', '.join([n.name for n in hit[:3]])
FirstNames(hit) == [i \in 1..Min2(3, Len(hit)) |-> hit[i].name]

Recommendation(tag, count, names) == [tag |-> tag, count |-> count, names |-> names]

GeneralRecommendations ==
    [i \in 1..6 |-> Recommendation("GENERAL", i, <<>>)]

GenerateRecommendations(res, ns, es) ==
    LET high_risk_nodes == HighRiskNodes(ns)
        untrusted_nodes == UntrustedNodes(ns)
    IN (IF high_risk_nodes # <<>>
        THEN <<Recommendation("CRITICAL", Len(high_risk_nodes), FirstNames(high_risk_nodes))>>
        ELSE <<>>)
       \o (IF untrusted_nodes # <<>>
           THEN <<Recommendation("SECURITY", Len(untrusted_nodes), FirstNames(untrusted_nodes))>>
           ELSE <<>>)
       \o (IF Len(res.circular_dependencies) > 0
           THEN <<Recommendation("ARCHITECTURE", Len(res.circular_dependencies), <<>>)>>
           ELSE <<>>)
       \o (IF Len(res.single_points_of_failure) > 0
           THEN <<Recommendation("RESILIENCE", Len(res.single_points_of_failure), <<>>)>>
           ELSE <<>>)
       \o (IF Len(res.orphaned_dependencies) > 0
           THEN <<Recommendation("CLEANUP", Len(res.orphaned_dependencies), <<>>)>>
           ELSE <<>>)
       \o (IF res.max_depth > 10
           THEN <<Recommendation("COMPLEXITY", res.max_depth, <<>>)>>
           ELSE <<>>)
       \o GeneralRecommendations

\* the SupplyChainAnalysis object (analysis_id and timestamp left out)
MakeAnalysis(ns, es, res) ==
    [total_nodes |-> Len(ns),
     total_edges |-> Len(es),
     max_depth |-> res.max_depth,
     risk_distribution |-> res.risk_distribution,
     trust_distribution |-> res.trust_distribution,
     critical_paths |-> res.critical_paths,
     vulnerable_paths |-> res.vulnerable_paths,
     orphaned_dependencies |-> res.orphaned_dependencies,
     circular_dependencies |-> res.circular_dependencies,
     single_points_of_failure |-> res.single_points_of_failure,
     supply_chain_score |-> CalculateSupplyChainScore(ns, es, res),
     recommendations |-> GenerateRecommendations(res, ns, es),
     nodes |-> ns,
     edges |-> es]

----------------------------------------------------------------------------
(* Inputs *)

CompA == [name |-> "A", version |-> "1.0", purl |-> "pkg:npm/"]
CompB == [name |-> "B", version |-> "2.0"]
CompC == [name |-> "C", version |-> "3.0", purl |-> "pkg:generic/"]

CompPool == {CompA, CompB, CompC}

ComponentLists == SeqsUpTo(CompPool, MaxComponents)

\* dependency entries an SBOM may hold, as (ref, dependsOn member)
CdxDepPool ==
    << <<"A@1.0", "B@2.0">>, <<"A@1.0", "C@3.0">>, <<"A@1.0", "A@1.0">>,
       <<"A@1.0", "Z@9.9">>, <<"B@2.0", "A@1.0">>, <<"B@2.0", "C@3.0">>,
       <<"B@2.0", "">>, <<"C@3.0", "A@1.0">>, <<"C@3.0", "B@2.0">>,
       <<None, "B@2.0">> >>

\* the CycloneDX dependencies array holding the pairs ps: one entry per run
\* of pairs with the same ref
RECURSIVE GroupByRef(_)
GroupByRef(ps) ==
    IF ps = <<>> THEN <<>>
    ELSE LET rest == GroupByRef(Tail(ps))
             ref == Head(ps)[1]
             first == IF ref = None THEN [dependsOn |-> <<Head(ps)[2]>>]
                      ELSE [ref |-> ref, dependsOn |-> <<Head(ps)[2]>>]
         IN IF rest # <<>> /\ Get(Head(rest), "ref", None) = ref
            THEN <<[Head(rest) EXCEPT !.dependsOn = <<Head(ps)[2]>> \o @]>> \o Tail(rest)
            ELSE <<first>> \o rest

CdxSboms ==
    {[bomFormat |-> "CycloneDX", components |-> cs,
      dependencies |-> GroupByRef(Pick(CdxDepPool, S))] :
        cs \in ComponentLists,
        S \in {T \in SUBSET (1..Len(CdxDepPool)) : Cardinality(T) <= MaxDeps}}

\* CycloneDX components with missing fields, and an SBOM without the keys
SparseSboms ==
    {[bomFormat |-> "CycloneDX"]}
    \cup {[bomFormat |-> "CycloneDX", components |-> cs] :
            cs \in SeqsUpTo({CompA, [name |-> "A"], [version |-> "1.0"], EmptyDict},
                            MaxComponents)}

SpdxPackagePool == {[name |-> "A", versionInfo |-> "1.0"], [name |-> "B"]}

SpdxRelPool ==
    << [spdxElementId |-> "A@1.0", relatedSpdxElement |-> "B@unknown",
        relationshipType |-> "DEPENDS_ON"],
       [spdxElementId |-> "B@unknown", relatedSpdxElement |-> "A@1.0",
        relationshipType |-> "CONTAINS"],
       [spdxElementId |-> "SPDXRef-A", relatedSpdxElement |-> "SPDXRef-B",
        relationshipType |-> "DEPENDS_ON"] >>

SpdxSboms ==
    {[spdxVersion |-> "SPDX-2.3", packages |-> ps, relationships |-> Pick(SpdxRelPool, S)] :
        ps \in SeqsUpTo(SpdxPackagePool, MaxComponents), S \in SUBSET (1..Len(SpdxRelPool))}

\* neither CycloneDX nor SPDX
OtherSboms ==
    {[components |-> cs, dependencies |-> GroupByRef(Pick(CdxDepPool, {1}))] :
        cs \in ComponentLists}
    \cup {[bomFormat |-> "SPDX", components |-> <<CompA>>], EmptyDict}

\* dependency lists that name the same (source, target) pair more than once
RepeatSboms ==
    {[bomFormat |-> "CycloneDX", components |-> <<CompA, CompB>>, dependencies |-> ds] :
        ds \in {<<[ref |-> "A@1.0", dependsOn |-> <<"B@2.0", "B@2.0">>]>>,
                 <<[ref |-> "A@1.0", dependsOn |-> <<"B@2.0">>],
                   [ref |-> "A@1.0", dependsOn |-> <<"B@2.0">>]>>,
                 <<[ref |-> "A@1.0", dependsOn |-> <<"A@1.0", "A@1.0", "B@2.0">>]>>}}

Sboms == CdxSboms \cup SparseSboms \cup SpdxSboms \cup OtherSboms \cup RepeatSboms

----------------------------------------------------------------------------
(* PerformancePredictor.__init__ of the feedback service: no model, no
   scaler, an empty prediction history *)

NewPredictor ==
    [model |-> None, scaler |-> None, prediction_history |-> <<>>,
     served |-> 0, raised |-> "", message |-> ""]

\* no _enrich_dependency_graph is running: no coroutine, no batch
NoEnrichment ==
    [i |-> 0, status |-> EmptyDict, runs |-> EmptyDict, enriched_data |-> <<>>]

\* ContinuousMonitor.__init__ with its AlertManager: the three labels of
\* the sbom_scans_total counter at 0, no call of process_sbom_change, no
\* stored alert; log lists what the alert manager has done, in order
NewMonitor(config) ==
    [config |-> config,
     sbom_scans_total |-> [started |-> 0, success |-> 0, error |-> 0],
     scans |-> EmptyDict,
     alert_manager |-> [security_alerts |-> <<>>, log |-> <<>>, raised |-> ""]]

----------------------------------------------------------------------------
(* analyze_supply_chain *)

Init ==
    /\ sbom \in Sboms
    /\ pc = "start"
    /\ graph = EmptyGraph
    /\ nodes = <<>>
    /\ edges = <<>>
    /\ results = EmptyDict
    /\ analysis = <<>>
    /\ error = ""
    /\ first_run = <<>>
    /\ faults = {}
    /\ predictor = NewPredictor
    /\ enrichment = NoEnrichment
    /\ monitor = NewMonitor(EmptyDict)

\* graph = await self._build_dependency_graph(sbom_data)
DoBuildDependencyGraph ==
    /\ pc = "start"
    /\ graph' = BuildDependencyGraph(sbom)
    /\ pc' = "built"
    /\ UNCHANGED <<sbom, nodes, edges, results, analysis, error>>
    /\ UNCHANGED <<first_run, faults, predictor, enrichment, monitor>>

\* nodes = await self._analyze_nodes(graph)
DoAnalyzeNodes ==
    /\ pc = "built"
    /\ nodes' = AnalyzeNodes(graph)
    /\ pc' = "nodes"
    /\ UNCHANGED <<sbom, graph, edges, results, analysis, error>>
    /\ UNCHANGED <<first_run, faults, predictor, enrichment, monitor>>

\* edges = await self._analyze_edges(graph); the ValueError of the
\* DependencyType lookup leaves analyze_supply_chain
DoAnalyzeEdges ==
    /\ pc = "nodes"
    /\ IF AnalyzeEdgesRaises(graph)
       THEN /\ pc' = "raised"
            /\ error' = "ValueError"
            /\ UNCHANGED edges
       ELSE /\ pc' = "edges"
            /\ edges' = AnalyzeEdges(graph)
            /\ UNCHANGED error
    /\ UNCHANGED <<sbom, graph, nodes, results, analysis>>
    /\ UNCHANGED <<first_run, faults, predictor, enrichment, monitor>>

\* analysis_results = await self._perform_graph_analysis(graph, nodes, edges)
DoPerformGraphAnalysis ==
    /\ pc = "edges"
    /\ IF CentralityRaises
       THEN /\ pc' = "raised"
            /\ error' = "NetworkXException"
            /\ UNCHANGED results
       ELSE /\ pc' = "analyzed"
            /\ results' = PerformGraphAnalysis(graph, nodes, edges)
            /\ UNCHANGED error
    /\ UNCHANGED <<sbom, graph, nodes, edges, analysis>>
    /\ UNCHANGED <<first_run, faults, predictor, enrichment, monitor>>

\* score, recommendations, the SupplyChainAnalysis object, _store_analysis
DoFinish ==
    /\ pc = "analyzed"
    /\ analysis' = <<MakeAnalysis(nodes, edges, results)>>
    /\ pc' = "done"
    /\ UNCHANGED <<sbom, graph, nodes, edges, results, error>>
    /\ UNCHANGED <<first_run, faults, predictor, enrichment, monitor>>

Next ==
    \/ DoBuildDependencyGraph
    \/ DoAnalyzeNodes
    \/ DoAnalyzeEdges
    \/ DoPerformGraphAnalysis
    \/ DoFinish

Spec == Init /\ [][Next]_vars

----------------------------------------------------------------------------
(* Properties of analyze_supply_chain *)

Terminal == pc \in {"done", "raised"}

Result == analysis[1]

ComponentIds(data) == {NodeId(c) : c \in Range(ExtractComponents(data))}

DepRefs(data) ==
    UNION {{Get(d, "source", None), Get(d, "target", None)} :
             d \in Range(ExtractDependencies(data))}

\* CycloneDX or SPDX shape, and every dependency ref names a component id
WellFormed(data) ==
    /\ \/ Get(data, "bomFormat", None) = "CycloneDX"
       \/ Truthy(Get(data, "spdxVersion", None))
    /\ DepRefs(data) \subseteq ComponentIds(data)

\* C1: a well-formed SBOM never makes analyze_supply_chain raise; the run
\* ends with a SupplyChainAnalysis, also when the graph has an edge.
C1_NeverRaises ==
    WellFormed(sbom) => /\ pc # "raised"
                        /\ error = ""

ScenarioChain ==
    [bomFormat |-> "CycloneDX",
     components |-> <<CompA, CompB, CompC>>,
     dependencies |-> <<[ref |-> "A@1.0", dependsOn |-> <<"B@2.0">>],
                        [ref |-> "B@2.0", dependsOn |-> <<"C@3.0">>]>>]

\* C2: the chain A@1.0 -> B@2.0 -> C@3.0 ends with total_nodes = 3,
\* total_edges = 2, no cycle and no orphan; every result counts the
\* graph's nodes and edges.
C2_ChainScenario ==
    /\ (Terminal /\ sbom = ScenarioChain) =>
           /\ pc = "done"
           /\ analysis # <<>>
           /\ Result.total_nodes = 3
           /\ Result.total_edges = 2
           /\ Result.circular_dependencies = <<>>
           /\ Result.orphaned_dependencies = <<>>
    /\ pc = "done" => /\ Result.total_nodes = Len(graph.nodes)
                      /\ Result.total_edges = Len(graph.edges)

\* the dependency entries that name two component ids
AcceptedDeps(data) ==
    {<<d.source, d.target>> :
        d \in {x \in Range(ExtractDependencies(data)) :
                 /\ Truthy(x.source) /\ Truthy(x.target)
                 /\ x.source \in ComponentIds(data)
                 /\ x.target \in ComponentIds(data)}}

DroppedDeps(data) ==
    {d \in Range(ExtractDependencies(data)) : <<d.source, d.target>> \notin AcceptedDeps(data)}

\* C3: once the graph is built every edge joins two nodes, the nodes are
\* exactly the component ids (a dropped dependency adds none) and the edges
\* are exactly the dependency entries that name two component ids.
C3_EdgesJoinNodes ==
    pc # "start" =>
        /\ \A e \in Range(graph.edges) : HasNode(graph, e[1]) /\ HasNode(graph, e[2])
        /\ Range(graph.nodes) = ComponentIds(sbom)
        /\ Range(graph.edges) = AcceptedDeps(sbom)
        /\ DOMAIN graph.attrs = ComponentIds(sbom)

\* a build that dropped a missing, an empty and an unknown ref and kept an edge
C3_Witness ==
    /\ pc = "built"
    /\ \E d \in DroppedDeps(sbom) : d.source = None
    /\ \E d \in DroppedDeps(sbom) : d.target = ""
    /\ \E d \in DroppedDeps(sbom) : d.target = "Z@9.9"
    /\ graph.edges # <<>>

ZeroScore(score) == score.num = 0

\* C4: a graph without nodes is analysed without raising, and every
\* aggregate metric is zero or empty.
C4_EmptyGraph ==
    (pc # "start" /\ graph.nodes = <<>>) =>
        /\ pc # "raised"
        /\ pc \in {"analyzed", "done"} =>
               /\ results.max_depth = 0
               /\ results.risk_distribution = EmptyDict
               /\ results.trust_distribution = EmptyDict
               /\ results.critical_paths = <<>>
               /\ results.vulnerable_paths = <<>>
               /\ results.orphaned_dependencies = <<>>
               /\ results.circular_dependencies = <<>>
               /\ results.single_points_of_failure = <<>>
        /\ pc = "done" =>
               /\ Result.total_nodes = 0
               /\ Result.max_depth = 0
               /\ Result.risk_distribution = EmptyDict
               /\ Result.trust_distribution = EmptyDict
               /\ Result.critical_paths = <<>>
               /\ Result.vulnerable_paths = <<>>
               /\ Result.orphaned_dependencies = <<>>
               /\ Result.circular_dependencies = <<>>
               /\ Result.single_points_of_failure = <<>>
               /\ ZeroScore(Result.supply_chain_score)

\* a finished analysis of an SBOM that lists components in neither format
C4_Witness ==
    /\ pc = "done"
    /\ graph.nodes = <<>>
    /\ "bomFormat" \notin DOMAIN sbom
    /\ "spdxVersion" \notin DOMAIN sbom
    /\ Get(sbom, "components", <<>>) # <<>>

\* C7: the analysed nodes have pairwise distinct ids, one per distinct
\* name@version of the component list, and total_nodes counts them.
C7_DistinctIds ==
    /\ pc \in {"nodes", "edges", "analyzed", "done", "raised"} =>
           /\ \A i, j \in 1..Len(nodes) : nodes[i].id = nodes[j].id => i = j
           /\ Len(nodes) = Cardinality(ComponentIds(sbom))
    /\ pc = "done" =>
           /\ Result.total_nodes = Cardinality(ComponentIds(sbom))
           /\ \A i, j \in 1..Len(Result.nodes) :
                  Result.nodes[i].id = Result.nodes[j].id => i = j

\* a finished analysis of a component list that repeats a name@version
C7_Witness ==
    /\ pc = "done"
    /\ Result.total_nodes = 2
    /\ Len(ExtractComponents(sbom)) = 3

IsRotation(p, q) ==
    /\ Len(p) = Len(q)
    /\ \E k \in 0..(Len(q) - 1) :
          \A i \in 1..Len(p) : p[i] = q[((i - 1 + k) % Len(q)) + 1]

Reported(cycle) ==
    \E i \in 1..Len(Result.circular_dependencies) :
        IsRotation(Result.circular_dependencies[i], cycle)

\* C8: when the graph holds the cycle A -> B -> C -> A the result lists it,
\* and it lists every simple cycle of the graph.
C8_CyclesReported ==
    (Terminal /\ HasEdge(graph, "A@1.0", "B@2.0") /\ HasEdge(graph, "B@2.0", "C@3.0")
              /\ HasEdge(graph, "C@3.0", "A@1.0")) =>
        /\ pc = "done"
        /\ analysis # <<>>
        /\ Reported(<<"A@1.0", "B@2.0", "C@3.0">>)
        /\ \A c \in SimpleCycles(graph) : Reported(c)

\* the graph is one chain through all its nodes and has no other edge
IsLinearChain(g) ==
    /\ g.nodes # <<>>
    /\ \E p \in DistinctNodeSeqs(g) :
          /\ Len(p) = Len(g.nodes)
          /\ Range(g.edges) = {<<p[i], p[i + 1]>> : i \in 1..(Len(p) - 1)}

\* C9: a linear chain of N nodes ends with no cycle and max_depth = N - 1.
C9_LinearChain ==
    (Terminal /\ IsLinearChain(graph)) =>
        /\ pc = "done"
        /\ analysis # <<>>
        /\ Result.circular_dependencies = <<>>
        /\ Result.max_depth = Len(graph.nodes) - 1

Isolated(g) == {n \in Range(g.nodes) : Predecessors(g, n) = {} /\ Successors(g, n) = {}}

\* C10: the result's orphaned_dependencies are exactly the nodes without an
\* incoming and without an outgoing edge.
C10_Orphans ==
    Terminal =>
        /\ pc = "done"
        /\ analysis # <<>>
        /\ Range(Result.orphaned_dependencies) = Isolated(graph)

----------------------------------------------------------------------------
(* _calculate_supply_chain_score on its own: every node list and every
   analysis result within the bounds, handed to the last step of
   analyze_supply_chain *)

ScoreNodes ==
    {[id |-> "n", name |-> "n", risk_score |-> r, trust_level |-> t] :
        r \in {-5, 0, 21, 70, 71, 100}, t \in {"neutral", "untrusted"}}

ScoreResults ==
    {[max_depth |-> 0, average_degree_num |-> 0, average_degree_den |-> 1,
      risk_distribution |-> EmptyDict, trust_distribution |-> EmptyDict,
      critical_paths |-> <<>>, vulnerable_paths |-> <<>>,
      orphaned_dependencies |-> [i \in 1..o |-> "n"],
      circular_dependencies |-> [i \in 1..c |-> <<"n">>],
      single_points_of_failure |-> [i \in 1..f |-> "n"]] :
        o \in 0..MaxFindings, c \in 0..MaxFindings, f \in 0..MaxFindings}

InitScore ==
    /\ sbom = EmptyDict
    /\ pc = "analyzed"
    /\ graph = EmptyGraph
    /\ nodes \in SeqsUpTo(ScoreNodes, MaxScoreNodes)
    /\ edges = <<>>
    /\ results \in ScoreResults
    /\ analysis = <<>>
    /\ error = ""
    /\ first_run = <<>>
    /\ faults = {}
    /\ predictor = NewPredictor
    /\ enrichment = NoEnrichment
    /\ monitor = NewMonitor(EmptyDict)

SpecScore == InitScore /\ [][DoFinish]_vars

HighRiskCount == Cardinality({i \in 1..Len(nodes) : nodes[i].risk_score > 70})

UntrustedCount == Cardinality({i \in 1..Len(nodes) : nodes[i].trust_level = "untrusted"})

\* P of the claim, in tenths
ClaimPenalty ==
    5 * Len(results.circular_dependencies) + 3 * Len(results.single_points_of_failure)
    + 2 * Len(results.orphaned_dependencies) + 4 * HighRiskCount + 6 * UntrustedCount

\* Len(nodes) times (mean of (10 - risk_score) - P), in tenths
ClaimUnclamped ==
    Sum([i \in 1..Len(nodes) |-> 100 - nodes[i].risk_score]) - Len(nodes) * ClaimPenalty

\* C5: for a non-empty node list the score is
\* clamp(mean(10 - risk_score) - P, 0, 10), with P the weighted counts of
\* cycles, single points of failure, orphans, nodes above 7.0 and untrusted
\* nodes; it lies in [0, 10].
C5_ScoreFormula ==
    (pc = "done" /\ Len(nodes) > 0) =>
        LET score == Result.supply_chain_score
            n == Len(nodes)
        IN /\ score.den > 0
           /\ 0 <= score.num /\ score.num <= 100 * score.den
           /\ ClaimUnclamped <= 0 => score.num = 0
           /\ ClaimUnclamped >= 100 * n => score.num = 100 * score.den
           /\ (0 < ClaimUnclamped /\ ClaimUnclamped < 100 * n) =>
                  score.num * n = ClaimUnclamped * score.den

\* a score strictly inside (0, 10) with every penalty category non-empty
C5_Witness ==
    /\ pc = "done"
    /\ Len(nodes) = 2
    /\ results.circular_dependencies # <<>>
    /\ results.single_points_of_failure # <<>>
    /\ results.orphaned_dependencies # <<>>
    /\ HighRiskCount > 0
    /\ UntrustedCount > 0
    /\ 0 < Result.supply_chain_score.num
    /\ Result.supply_chain_score.num < 100 * Result.supply_chain_score.den

----------------------------------------------------------------------------
(* _analyze_nodes on its own: graphs whose nodes carry what the enrichment
   collaborators may have returned *)

SecurityAnswers ==
    {[vulnerability_count |-> v, critical_vulnerabilities |-> c] :
        v \in {-5, 0, 3, 25}, c \in {0, 2, 6}}

RegistryAnswers ==
    {EmptyDict,
     [age_days |-> 10, downloads |-> 5000, maintainers |-> <<"m1">>],
     [age_days |-> 3000, downloads |-> 50000, maintainers |-> <<"m1", "m2">>],
     [age_days |-> 1900, downloads |-> 500, maintainers |-> <<"m1", "m2", "m3">>]}

TrustAnswers ==
    {[signed |-> FALSE, maintainer_reputation |-> 5, security_incidents |-> 0],
     [signed |-> FALSE, maintainer_reputation |-> 5, security_incidents |-> 4]}

EnrichedB ==
    {[name |-> "B", version |-> "2.0", security_info |-> s, registry_info |-> r,
      trust_info |-> t] :
        s \in SecurityAnswers, r \in RegistryAnswers, t \in TrustAnswers}

EnrichedA ==
    [name |-> "A", version |-> "1.0",
     security_info |-> GetSecurityInformation("A", "1.0", "unknown"),
     trust_info |-> GetTrustInformation("A", "1.0", "unknown")]

RiskGraphs ==
    LET Two(b) == AddNode(AddNode(EmptyGraph, "A@1.0", EnrichedA), "B@2.0", b)
    IN {AddNode(EmptyGraph, "B@2.0", b) : b \in EnrichedB}
       \cup {Two(b) : b \in EnrichedB}
       \cup {AddEdge(Two(b), "A@1.0", "B@2.0", Dep("A@1.0", "B@2.0")) : b \in EnrichedB}
       \cup {AddEdge(Two(b), "B@2.0", "A@1.0", Dep("B@2.0", "A@1.0")) : b \in EnrichedB}

InitRisk ==
    /\ sbom = EmptyDict
    /\ pc = "built"
    /\ graph \in RiskGraphs
    /\ nodes = <<>>
    /\ edges = <<>>
    /\ results = EmptyDict
    /\ analysis = <<>>
    /\ error = ""
    /\ first_run = <<>>
    /\ faults = {}
    /\ predictor = NewPredictor
    /\ enrichment = NoEnrichment
    /\ monitor = NewMonitor(EmptyDict)

SpecRisk == InitRisk /\ [][DoAnalyzeNodes]_vars

\* C6: every node of _analyze_nodes has a risk score within [0, 10],
\* whatever the enrichment collaborators returned.
C6_RiskInRange ==
    pc = "nodes" => \A i \in 1..Len(nodes) :
                        0 <= nodes[i].risk_score /\ nodes[i].risk_score <= 100


----------------------------------------------------------------------------
(* The chain scenario with the closing edge C -> A *)

ScenarioCycle ==
    [bomFormat |-> "CycloneDX",
     components |-> <<CompA, CompB, CompC>>,
     dependencies |-> <<[ref |-> "A@1.0", dependsOn |-> <<"B@2.0">>],
                        [ref |-> "B@2.0", dependsOn |-> <<"C@3.0">>],
                        [ref |-> "C@3.0", dependsOn |-> <<"A@1.0">>]>>]

\* the steps of analyze_supply_chain composed, for the score an SBOM would
\* get if every step returned
ScoreOf(data) ==
    LET g == BuildDependencyGraph(data)
        ns == AnalyzeNodes(g)
        es == AnalyzeEdges(g)
    IN CalculateSupplyChainScore(ns, es, PerformGraphAnalysis(g, ns, es))

ScoreLess(a, b) == a.num * b.den < b.num * a.den

\* C11: the chain A -> B -> C with the added edge C -> A ends with the
\* 3-node cycle among circular_dependencies and with a supply_chain_score
\* strictly below the score of the chain without that edge.
C11_CycleLowersScore ==
    (Terminal /\ sbom = ScenarioCycle) =>
        /\ pc = "done"
        /\ analysis # <<>>
        /\ Reported(<<"A@1.0", "B@2.0", "C@3.0">>)
        /\ ScoreLess(Result.supply_chain_score, ScoreOf(ScenarioChain))

\* hops from the first component to node id, 0 when there is no path
HopsTo(g, id) == Max2(ShortestPathLength(g, g.nodes[1], id), 0)

\* C12: a node whose enrichment data is all default has a risk score made
\* of the depth penalty only (0.1 per hop), and the chain A -> B -> C with
\* default data scores 10 minus the mean depth penalty, with no structural
\* penalty subtracted.
C12_DefaultNeutral ==
    /\ pc = "nodes" =>
           \A i \in 1..Len(nodes) : nodes[i].risk_score = HopsTo(graph, nodes[i].id)
    /\ (Terminal /\ sbom = ScenarioChain) =>
           /\ pc = "done"
           /\ analysis # <<>>
           /\ Result.supply_chain_score.num * 3
                  = (300 - (0 + 1 + 2)) * Result.supply_chain_score.den

----------------------------------------------------------------------------
(* analyze_supply_chain called twice on one analyzer with the same SBOM.
   The second call starts from whatever the first call left behind. *)

TwiceSboms == {s \in Sboms : Len(ExtractDependencies(s)) <= 1}

InitTwice ==
    /\ sbom \in TwiceSboms
    /\ pc = "start"
    /\ graph = EmptyGraph
    /\ nodes = <<>>
    /\ edges = <<>>
    /\ results = EmptyDict
    /\ analysis = <<>>
    /\ error = ""
    /\ first_run = <<>>
    /\ faults = {}
    /\ predictor = NewPredictor
    /\ enrichment = NoEnrichment
    /\ monitor = NewMonitor(EmptyDict)

\* the first call has returned or raised; the caller keeps its outcome and
\* calls analyze_supply_chain(sbom_data) again
DoAnalyzeAgain ==
    /\ Terminal
    /\ first_run = <<>>
    /\ first_run' = <<[pc |-> pc, error |-> error, analysis |-> analysis]>>
    /\ pc' = "start"
    /\ error' = ""
    /\ UNCHANGED <<sbom, graph, nodes, edges, results, analysis, faults, predictor,
                 enrichment, monitor>>

NextTwice ==
    \/ DoBuildDependencyGraph
    \/ DoAnalyzeNodes
    \/ DoAnalyzeEdges
    \/ DoPerformGraphAnalysis
    \/ DoFinish
    \/ DoAnalyzeAgain

SpecTwice == InitTwice /\ [][NextTwice]_vars

----------------------------------------------------------------------------
(* Properties of _calculate_node_risk_score, over the graphs of SpecRisk *)

\* node_data with another count of critical vulnerabilities
WithCriticals(node_data, c) ==
    [node_data EXCEPT !.security_info = [@ EXCEPT !.critical_vulnerabilities = c]]

CriticalCounts == {0, 1, 2, 3, 5, 6, 7}

\* C14: of two nodes at the same position of the same graph whose data
\* differ only in critical_vulnerabilities, the one with the greater count
\* has a risk score at least as large, and an equal one only when both
\* scores are capped at 10.
C14_CriticalMonotone ==
    pc = "nodes" =>
        \A i \in 1..Len(nodes) : \A c \in CriticalCounts :
            LET a == nodes[i].metadata
                b == WithCriticals(a, c)
                risk_a == nodes[i].risk_score
                risk_b == CalculateNodeRiskScore(b, graph, nodes[i].id)
            IN c > a.security_info.critical_vulnerabilities =>
                   /\ risk_b >= risk_a
                   /\ risk_b = risk_a =>
                          /\ risk_a = 100
                          /\ RawNodeRisk(a, graph, nodes[i].id) >= 100
                          /\ RawNodeRisk(b, graph, nodes[i].id) >= 100

\* a scored node below the cap with two critical vulnerabilities, one hop
\* away from the first component
C14_Witness ==
    /\ pc = "nodes"
    /\ \E i \in 1..Len(nodes) :
          /\ nodes[i].metadata.security_info.critical_vulnerabilities = 2
          /\ nodes[i].risk_score < 100
          /\ HopsTo(graph, nodes[i].id) = 1

\* the claimed penalties of a node, in tenths; age in days, five years
\* being 5 * 365 days
ClaimedRisk(node_data, g, node_id) ==
    LET security_info == Get(node_data, "security_info", EmptyDict)
        registry_info == Get(node_data, "registry_info", EmptyDict)
        age_days == Get(registry_info, "age_days", 365)
        downloads == Get(registry_info, "downloads", 0)
        maintainer_count == Len(Get(registry_info, "maintainers", <<>>))
        age_penalty == IF age_days < 30 THEN 10
                       ELSE IF age_days > 5 * 365 THEN 5 ELSE 0
        popularity_penalty == IF downloads < 1000 THEN 10
                              ELSE IF downloads < 10000 THEN 5 ELSE 0
        maintainer_penalty == IF maintainer_count = 1 THEN 5
                              ELSE IF maintainer_count = 0 THEN 10 ELSE 0
    IN Min2(100, 20 * Get(security_info, "critical_vulnerabilities", 0)
                 + 5 * Get(security_info, "vulnerability_count", 0)
                 + age_penalty + popularity_penalty + maintainer_penalty
                 + HopsTo(g, node_id))

\* C20: the risk score of a node is min(10, 2.0 * critical vulnerabilities
\* + 0.5 * vulnerability count + age penalty + popularity penalty
\* + maintainer penalty + depth penalty), the age penalty being 1.0 below
\* 30 days and 0.5 above five years, the popularity penalty 1.0 below 1000
\* downloads and 0.5 below 10000, the maintainer penalty 0.5 for one
\* maintainer and 1.0 for none.
C20_RiskFormula ==
    pc = "nodes" =>
        \A i \in 1..Len(nodes) :
            nodes[i].risk_score = ClaimedRisk(nodes[i].metadata, graph, nodes[i].id)

----------------------------------------------------------------------------
(* _build_dependency_graph with collaborator lookups that raise *)

MaxFaults == 2

Lookups == {"registry", "security", "trust"}

FaultSets ==
    {f \in SUBSET ({"A@1.0", "B@2.0", "C@3.0"} \X Lookups) : Cardinality(f) <= MaxFaults}

EnrichSboms ==
    {[bomFormat |-> "CycloneDX", components |-> cs, dependencies |-> ds] :
        cs \in {<<CompA>>, <<CompA, CompB>>, <<CompA, CompB, CompC>>},
        ds \in {<<>>, <<[ref |-> "A@1.0", dependsOn |-> <<"B@2.0">>]>>}}

InitEnrich ==
    /\ sbom \in EnrichSboms
    /\ pc = "start"
    /\ graph = EmptyGraph
    /\ nodes = <<>>
    /\ edges = <<>>
    /\ results = EmptyDict
    /\ analysis = <<>>
    /\ error = ""
    /\ first_run = <<>>
    /\ faults \in FaultSets
    /\ predictor = NewPredictor
    /\ enrichment = NoEnrichment
    /\ monitor = NewMonitor(EmptyDict)

SpecEnrich == InitEnrich /\ [][DoBuildDependencyGraph]_vars

\* the node attributes add_node stored, before any enrichment
PreEnrichment(data, n) ==
    AddComponents(EmptyGraph, ExtractComponents(data)).attrs[n]

\* some lookup that _enrich_node_data calls for n raises
LookupFails(n) ==
    \/ Fails(n, "security")
    \/ Fails(n, "trust")
    \/ /\ Fails(n, "registry")
       /\ ExtractPackageManager(Get(PreEnrichment(sbom, n), "purl", "")) \in Registries

\* C15: a failing lookup does not abort the batch; every other node is
\* enriched normally and the failing node keeps exactly its pre-enrichment
\* attributes, with nothing merged from the lookups that succeeded before
\* the failure.
C15_NoPartialMerge ==
    pc = "built" =>
        /\ error = ""
        /\ \A n \in Range(graph.nodes) :
              IF LookupFails(n)
              THEN graph.attrs[n] = PreEnrichment(sbom, n)
              ELSE /\ "security_info" \in DOMAIN graph.attrs[n]
                   /\ "trust_info" \in DOMAIN graph.attrs[n]

----------------------------------------------------------------------------
(* Properties of the graph construction on sparse and repeated input *)

\* the component entries as the SBOM lists them, with the key of the version
RawComponents(data) ==
    IF Get(data, "bomFormat", None) = "CycloneDX"
    THEN LET cs == Get(data, "components", <<>>)
         IN [i \in 1..Len(cs) |->
                [name |-> Get(cs[i], "name", ""), version |-> Get(cs[i], "version", "")]]
    ELSE IF Truthy(Get(data, "spdxVersion", None))
    THEN LET ps == Get(data, "packages", <<>>)
         IN [i \in 1..Len(ps) |->
                [name |-> Get(ps[i], "name", ""), version |-> Get(ps[i], "versionInfo", "")]]
    ELSE <<>>

\* C16: a component without a name or a version gets the empty string for
\* that field: its node identifier is name@version with "" for what is
\* missing ("@" when both are), its node name and version are "", nothing
\* is raised and no placeholder text such as "None" appears.
C16_MissingFieldsEmpty ==
    pc # "start" =>
        /\ error = ""
        /\ \A c \in Range(RawComponents(sbom)) :
              LET id == c.name \o "@" \o c.version
              IN /\ HasNode(graph, id)
                 /\ graph.attrs[id].name = c.name
                 /\ graph.attrs[id].version = c.version
        /\ pc \in {"nodes", "edges", "analyzed", "done"} =>
              \A i \in 1..Len(nodes) :
                  \E c \in Range(RawComponents(sbom)) :
                      /\ nodes[i].id = c.name \o "@" \o c.version
                      /\ nodes[i].name = c.name
                      /\ nodes[i].version = c.version

\* the dependency entries, in order and with repeats, whose endpoints are
\* both nodes
AcceptedEntries(data) ==
    SelectSeq(ExtractDependencies(data),
              LAMBDA d : <<d.source, d.target>> \in AcceptedDeps(data))

\* C17: the edges are the accepted dependsOn entries verbatim: a self-loop
\* entry is an edge, k repeated entries of one (source, target) pair are k
\* edges, and total_edges of the result is the number of accepted entries.
C17_EdgesVerbatim ==
    /\ pc # "start" =>
           /\ Len(graph.edges) = Len(AcceptedEntries(sbom))
           /\ \A d \in Range(AcceptedEntries(sbom)) : HasEdge(graph, d.source, d.target)
    /\ Terminal =>
           /\ pc = "done"
           /\ analysis # <<>>
           /\ Result.total_edges = Len(AcceptedEntries(sbom))
           /\ Len(Result.edges) = Len(AcceptedEntries(sbom))

----------------------------------------------------------------------------
(* PerformancePredictor of the feedback service
   (src/services/ai-feedback-service/app/services/performance_predictor.py).
   predictor.model and predictor.scaler are None, "unfitted" (the object
   was assigned and its fit raised) or "fitted".  An entry of
   prediction_history is kept as its timestamp, the number of the
   successful call that appended it; predictor.served counts those calls. *)

\* the 1000 of "if len(self.prediction_history) > 1000"
HistoryLimit == 1000

MaxCalls == 1003

\* student_data as the request carried it: a number is kept as its literal
StudentData ==
    {EmptyDict,
     [submissions_per_week |-> "5"],
     [submissions_per_week |-> "many"],
     [submissions_per_week |-> None]}

IsNumber(v) == v \in {"0", "3", "5", "12"}

\* _extract_features: submissions_per_week / 10.0 raises TypeError unless
\* the value is a number
ExtractFeaturesRaises(student_data) ==
    ~IsNumber(Get(student_data, "submissions_per_week", "3"))

\* self.prediction_history[:1000], the oldest entries
TrimHistoryOldest(history) ==
    IF Len(history) > HistoryLimit THEN SubSeq(history, 1, HistoryLimit) ELSE history

\* if len(self.prediction_history) > 1000:
\*     self.prediction_history = self.prediction_history[-1000:]
TrimHistory(history) ==
    IF Len(history) > HistoryLimit
    THEN SubSeq(history, Len(history) - HistoryLimit + 1, Len(history))
    ELSE history

Raise(p, exception, message) == [p EXCEPT !.raised = exception, !.message = message]

\* the steps of the try block before the append: features, scaler.transform,
\* model.predict, _calculate_confidence
PredictionFails(p, student_data) ==
    \/ ExtractFeaturesRaises(student_data)
    \/ p.scaler # "fitted"
    \/ p.model # "fitted"

\* predict_performance if the history entry were stored before the
\* prediction is computed
PredictPerformanceAppendFirst(p, student_data) ==
    IF p.model = None \/ p.scaler = None
    THEN Raise(p, "PredictionException", "Model not initialized")
    ELSE LET stored == [p EXCEPT !.served = @ + 1,
                                 !.prediction_history =
                                     TrimHistory(Append(@, [timestamp |-> p.served + 1]))]
         IN IF PredictionFails(p, student_data)
            THEN Raise(stored, "PredictionException", "Prediction failed")
            ELSE Raise(stored, "", "")

\* predict_performance once the truth test of self.model has returned
PredictPerformance(p, student_data) ==
    IF p.model = None \/ p.scaler = None
    THEN Raise(p, "PredictionException", "Model not initialized")
    ELSE IF PredictionFails(p, student_data)
    THEN Raise(p, "PredictionException", "Prediction failed")
    ELSE [p EXCEPT !.served = @ + 1,
                   !.prediction_history =
                       TrimHistory(Append(@, [timestamp |-> p.served + 1])),
                   !.raised = "",
                   !.message = ""]

\* how far initialize gets: it loads or trains both objects, or raises
\* after having assigned some of them
InitializeOutcomes ==
    {[model |-> "fitted", scaler |-> "fitted", ok |-> TRUE],
     [model |-> "keep", scaler |-> "keep", ok |-> FALSE],
     [model |-> "fitted", scaler |-> "keep", ok |-> FALSE],
     [model |-> "keep", scaler |-> "unfitted", ok |-> FALSE],
     [model |-> "unfitted", scaler |-> "fitted", ok |-> FALSE]}

Initialize(p, outcome) ==
    [p EXCEPT !.model = IF outcome.model = "keep" THEN @ ELSE outcome.model,
              !.scaler = IF outcome.scaler = "keep" THEN @ ELSE outcome.scaler,
              !.raised = IF outcome.ok THEN "" ELSE "PredictionException",
              !.message = IF outcome.ok THEN "" ELSE "Model initialization failed"]

InitPredictor ==
    /\ sbom = EmptyDict
    /\ pc = "done"
    /\ graph = EmptyGraph
    /\ nodes = <<>>
    /\ edges = <<>>
    /\ results = EmptyDict
    /\ analysis = <<>>
    /\ error = ""
    /\ first_run = <<>>
    /\ faults = {}
    /\ predictor = NewPredictor
    /\ enrichment = NoEnrichment
    /\ monitor = NewMonitor(EmptyDict)

DoInitialize ==
    /\ \E outcome \in InitializeOutcomes : predictor' = Initialize(predictor, outcome)
    /\ UNCHANGED <<sbom, pc, graph, nodes, edges, results, analysis, error, first_run, faults,
                 enrichment, monitor>>

\* "not self.model" on an assigned but unfitted estimator asks it for its
\* length, which may raise AttributeError before the try block is entered
DoPredictPerformance ==
    /\ predictor.served < MaxCalls
    /\ \E student_data \in StudentData :
          \/ predictor' = PredictPerformance(predictor, student_data)
          \/ /\ predictor.model = "unfitted"
             /\ predictor' = Raise(predictor, "AttributeError", "estimators_")
    /\ UNCHANGED <<sbom, pc, graph, nodes, edges, results, analysis, error, first_run, faults,
                 enrichment, monitor>>

NextPredictor ==
    \/ DoInitialize
    \/ DoPredictPerformance

SpecPredictor == InitPredictor /\ [][NextPredictor]_vars

----------------------------------------------------------------------------
(* Properties of predict_performance *)

\* C18: prediction_history never holds more than 1000 entries; each
\* successful call appends one entry at the end, and past 1000 the oldest
\* are dropped, so the history is the most recent min(served, 1000)
\* successful calls in call order.
C18_HistoryBounded ==
    LET history == predictor.prediction_history
    IN /\ Len(history) <= 1000
       /\ Len(history) = Min2(predictor.served, 1000)
       /\ \A i \in 1..Len(history) :
              history[i].timestamp = predictor.served - Len(history) + i

\* a full history from which the two oldest entries have been dropped
C18_Witness ==
    /\ predictor.served = 1002
    /\ Len(predictor.prediction_history) = 1000
    /\ predictor.prediction_history[1].timestamp = 3
    /\ predictor.raised = ""

Initialized(p) == p.model = "fitted" /\ p.scaler = "fitted"

\* C19: predict_performance on a predictor whose model or scaler is unset
\* raises PredictionException for every input and leaves prediction_history
\* unchanged; on an initialized predictor a call that fails raises
\* PredictionException and appends nothing.
C19_FailedCallAppendsNothing ==
    [][DoPredictPerformance =>
          /\ (predictor.model = None \/ predictor.scaler = None) =>
                 /\ predictor'.raised = "PredictionException"
                 /\ predictor'.prediction_history = predictor.prediction_history
          /\ (Initialized(predictor) /\ predictor'.raised # "") =>
                 /\ predictor'.raised = "PredictionException"
                 /\ predictor'.prediction_history = predictor.prediction_history
          /\ (Initialized(predictor) /\ predictor'.raised = "") =>
                 Len(predictor'.prediction_history) = Min2(Len(predictor.prediction_history) + 1, 1000)]_vars

\* a call refused for a missing scaler while the model is loaded
C19_Witness ==
    /\ predictor.model = "fitted"
    /\ predictor.scaler = None
    /\ predictor.raised = "PredictionException"
    /\ predictor.message = "Model not initialized"

----------------------------------------------------------------------------
(* Properties of the depth penalty *)

\* the depth penalty of a node when distances are taken from node r
DepthPenaltyFrom(g, r, id) == Max2(ShortestPathLength(g, r, id), 0)

\* C21: the depth penalty of a node is 0.1 times its shortest-path distance
\* from a root of the graph (a node without incoming edge), the same root
\* for every node and whatever the order of the components; a node the
\* root cannot reach gets no penalty, and nothing is raised.
C21_DepthFromRoot ==
    (pc = "nodes" /\ Roots(graph) # {}) =>
        /\ error = ""
        /\ \E r \in Roots(graph) :
              \A i \in 1..Len(nodes) :
                  nodes[i].risk_score =
                      Min2(100, RawNodeRisk(nodes[i].metadata, graph, nodes[i].id)
                                - HopsTo(graph, nodes[i].id)
                                + DepthPenaltyFrom(graph, r, nodes[i].id))

----------------------------------------------------------------------------
(* _enrich_dependency_graph step by step (lines 346-364).  The coroutines of
   all nodes are created first and run only once asyncio.gather has wrapped
   the ones of a batch in tasks; the coordinator waits at the gather and
   then merges the batch without awaiting.  enrichment.i is the loop
   variable i, enrichment.status the state of every node's coroutine
   ("created", "running", "done", "cancelled"), enrichment.runs how often
   it was started, enrichment.enriched_data the result list of the gather
   in progress (a slot is <<>> until its coroutine has returned, then
   <<dict>>). *)

\* batch_size = 10
BatchSize == 10

MaxBatchNodes == 12

BatchNames ==
    <<"n01", "n02", "n03", "n04", "n05", "n06", "n07", "n08", "n09", "n10",
      "n11", "n12", "n13", "n14">>

BatchComponent(k) ==
    IF k = 1 THEN [name |-> BatchNames[k], version |-> "1", purl |-> "pkg:npm/"]
    ELSE [name |-> BatchNames[k], version |-> "1"]

BatchSboms ==
    {[bomFormat |-> "CycloneDX",
      components |-> [k \in 1..n |-> BatchComponent(k)],
      dependencies |-> ds] :
        n \in 0..MaxBatchNodes,
        ds \in {<<>>, <<[ref |-> "n01@1", dependsOn |-> <<"n02@1">>]>>}}

BatchFaults ==
    {{}, {<<"n01@1", "security">>}, {<<"n02@1", "trust">>}, {<<"n11@1", "security">>}}

\* the graph of _build_dependency_graph before line 284
UnenrichedGraph(data) ==
    AddDependencies(AddComponents(EmptyGraph, ExtractComponents(data)),
                    ExtractDependencies(data))

\* a slice one element too long: tasks[i:i + batch_size + 1]
BatchPositionsTooLong(i, n) == (i + 1)..Min2(i + BatchSize + 1, n)

\* batch = tasks[i:i + batch_size], as 1-based positions of n tasks
BatchPositions(i, n) == (i + 1)..Min2(i + BatchSize, n)

\* the first slot of the result list that is still empty
GatherSlotFirstFree(e, position) ==
    CHOOSE j \in 1..Len(e.enriched_data) :
        /\ e.enriched_data[j] = <<>>
        /\ \A k \in 1..(j - 1) : e.enriched_data[k] # <<>>

\* asyncio.gather returns the results in the order of its awaitables
GatherSlot(e, position) == position - e.i

\* list(graph.nodes())[j], the offset of the batch forgotten
MergeTargetNoOffset(g, i, j) == g.nodes[j]

\* node_id = list(graph.nodes())[i + j], j counted from 1 here
MergeTarget(g, i, j) == g.nodes[i + j]

\* the loop of lines 361-364 over the results of one batch
MergeBatch(g, e) ==
    LET F[j \in 0..Len(e.enriched_data)] ==
            IF j = 0 THEN g
            ELSE LET node_id == MergeTarget(g, e.i, j)
                 IN [F[j - 1] EXCEPT !.attrs[node_id] = Update(@, e.enriched_data[j][1])]
    IN F[Len(e.enriched_data)]

\* a cancelled gather whose finished results were merged all the same
CancelledGraphMerged(g, e) ==
    LET F[j \in 0..Len(e.enriched_data)] ==
            IF j = 0 THEN g
            ELSE IF e.enriched_data[j] = <<>> THEN F[j - 1]
            ELSE [F[j - 1] EXCEPT !.attrs[MergeTarget(g, e.i, j)] =
                                      Update(@, e.enriched_data[j][1])]
    IN F[Len(e.enriched_data)]

\* CancelledError leaves the method at the await of line 359: the results of
\* the batch are dropped, the graph is as the last merge left it
CancelledGraph(g, e) == g

InitBatch ==
    /\ sbom \in BatchSboms
    /\ pc = "start"
    /\ graph = EmptyGraph
    /\ nodes = <<>>
    /\ edges = <<>>
    /\ results = EmptyDict
    /\ analysis = <<>>
    /\ error = ""
    /\ first_run = <<>>
    /\ faults \in BatchFaults
    /\ predictor = NewPredictor
    /\ enrichment = NoEnrichment
    /\ monitor = NewMonitor(EmptyDict)

\* lines 264-281 and 348-353: the graph is built and one coroutine per node
\* is created, none started
DoCreateTasks ==
    /\ pc = "start"
    /\ graph' = UnenrichedGraph(sbom)
    /\ enrichment' = [i |-> 0,
                      status |-> [n \in Range(graph'.nodes) |-> "created"],
                      runs |-> [n \in Range(graph'.nodes) |-> 0],
                      enriched_data |-> <<>>]
    /\ pc' = "enrich"
    /\ UNCHANGED <<sbom, nodes, edges, results, analysis, error, first_run, faults,
                   predictor, monitor>>

\* lines 357-359: the next batch is handed to asyncio.gather, which starts
\* its coroutines; the coordinator waits
DoGather ==
    /\ pc = "enrich"
    /\ enrichment.i < Len(graph.nodes)
    /\ LET batch == BatchPositions(enrichment.i, Len(graph.nodes))
           ids == {graph.nodes[p] : p \in batch}
       IN enrichment' =
              [enrichment EXCEPT
                  !.status = [n \in DOMAIN @ |-> IF n \in ids THEN "running" ELSE @[n]],
                  !.runs = [n \in DOMAIN @ |-> IF n \in ids THEN @[n] + 1 ELSE @[n]],
                  !.enriched_data = [j \in 1..Cardinality(batch) |-> <<>>]]
    /\ pc' = "gather"
    /\ UNCHANGED <<sbom, graph, nodes, edges, results, analysis, error, first_run, faults,
                   predictor, monitor>>

\* one running _enrich_node_data returns its dict to the gather
DoLookupReturn ==
    /\ pc = "gather"
    /\ \E p \in 1..Len(graph.nodes) :
          LET n == graph.nodes[p]
          IN /\ enrichment.status[n] = "running"
             /\ enrichment' =
                    [enrichment EXCEPT
                        !.status[n] = "done",
                        !.enriched_data[GatherSlot(enrichment, p)] =
                            <<EnrichNodeData(n, graph.attrs[n])>>]
    /\ UNCHANGED <<sbom, pc, graph, nodes, edges, results, analysis, error, first_run,
                   faults, predictor, monitor>>

\* lines 359-364: every coroutine of the batch has returned; the gather
\* hands over the results and the coordinator merges them
DoMerge ==
    /\ pc = "gather"
    /\ \A n \in DOMAIN enrichment.status : enrichment.status[n] # "running"
    /\ graph' = MergeBatch(graph, enrichment)
    /\ enrichment' = [enrichment EXCEPT !.i = @ + BatchSize, !.enriched_data = <<>>]
    /\ pc' = "enrich"
    /\ UNCHANGED <<sbom, nodes, edges, results, analysis, error, first_run, faults,
                   predictor, monitor>>

\* the range of line 357 is exhausted; _build_dependency_graph returns
DoEnrichReturn ==
    /\ pc = "enrich"
    /\ enrichment.i >= Len(graph.nodes)
    /\ pc' = "built"
    /\ UNCHANGED <<sbom, graph, nodes, edges, results, analysis, error, first_run, faults,
                   predictor, enrichment, monitor>>

\* the analysis is cancelled while the coordinator waits at the gather:
\* the gather cancels the coroutines still running
DoCancel ==
    /\ pc = "gather"
    /\ graph' = CancelledGraph(graph, enrichment)
    /\ enrichment' =
           [enrichment EXCEPT
               !.status = [n \in DOMAIN @ |-> IF @[n] = "running" THEN "cancelled" ELSE @[n]]]
    /\ pc' = "cancelled"
    /\ UNCHANGED <<sbom, nodes, edges, results, analysis, error, first_run, faults,
                   predictor, monitor>>

NextBatch ==
    \/ DoCreateTasks
    \/ DoGather
    \/ DoLookupReturn
    \/ DoMerge
    \/ DoEnrichReturn
    \/ DoCancel
    \/ DoAnalyzeNodes

SpecBatch == InitBatch /\ [][NextBatch]_vars

InFlight == {n \in DOMAIN enrichment.status : enrichment.status[n] = "running"}

\* the state of the coroutine of the node at 1-based position p, and the
\* number of the batch that position belongs to
StatusAt(p) == enrichment.status[graph.nodes[p]]

BatchAt(p) == (p - 1) \div 10

\* C22: the lookups run in batches of at most 10: all lookups in flight
\* belong to one batch, at most 10 are in flight, and no lookup of a batch
\* has started while a lookup of an earlier batch has not finished.
C22_OneBatchInFlight ==
    pc \in {"enrich", "gather", "built", "cancelled"} =>
        LET ps == 1..Len(graph.nodes)
            running == {p \in ps : StatusAt(p) = "running"}
            started == {p \in ps : StatusAt(p) # "created"}
        IN /\ Cardinality(running) <= 10
           /\ \A p, q \in running : BatchAt(p) = BatchAt(q)
           /\ \A q \in started : \A p \in ps :
                  BatchAt(p) < BatchAt(q) => StatusAt(p) = "done"

\* the second batch in flight after a first batch of 10 has been merged
C22_Witness ==
    /\ pc = "gather"
    /\ enrichment.i = 10
    /\ Cardinality(InFlight) = 2
    /\ \A p \in 1..10 : StatusAt(p) = "done"

\* what the enrichment of node n on its own adds to its attributes
OwnEnrichment(n) ==
    Update(PreEnrichment(sbom, n), EnrichNodeData(n, PreEnrichment(sbom, n)))

\* C23: in one run every node's lookup is executed exactly once and its
\* result is merged into that same node; the graph attributes are written
\* only by the coordinator, after every lookup of the node's batch has
\* returned, and only for the nodes of that batch.
C23_OncePerNode ==
    /\ [](\A n \in DOMAIN enrichment.status : enrichment.runs[n] <= 1)
    /\ [](pc \in {"built", "nodes"} =>
              \A n \in Range(graph.nodes) :
                  /\ enrichment.runs[n] = 1
                  /\ graph.attrs[n] = OwnEnrichment(n))
    /\ [][(pc # "start" /\ graph' # graph) =>
              /\ pc = "gather"
              /\ \A p \in 1..Len(graph.nodes) : StatusAt(p) = "done" \/ StatusAt(p) = "created"
              /\ graph'.nodes = graph.nodes
              /\ graph'.edges = graph.edges
              /\ \A p \in 1..Len(graph.nodes) :
                    graph'.attrs[graph.nodes[p]] # graph.attrs[graph.nodes[p]] =>
                        /\ p \in BatchPositions(enrichment.i, Len(graph.nodes))
                        /\ graph'.attrs[graph.nodes[p]] = OwnEnrichment(graph.nodes[p])]_vars

\* a finished enrichment of 12 nodes in which the second batch was merged
\* into the eleventh and twelfth node, one of them after a failed lookup
C23_Witness ==
    /\ pc = "built"
    /\ Len(graph.nodes) = 12
    /\ enrichment.i = 20
    /\ faults = {<<"n11@1", "security">>}
    /\ "trust_info" \in DOMAIN graph.attrs["n12@1"]
    /\ "trust_info" \notin DOMAIN graph.attrs["n11@1"]

C25_OrderIndependent ==
    /\ pc \in {"built", "nodes"} => graph = EnrichDependencyGraph(UnenrichedGraph(sbom))
    /\ pc = "nodes" => nodes = AnalyzeNodes(EnrichDependencyGraph(UnenrichedGraph(sbom)))

\* the twelfth node's lookup has returned before the eleventh's
C25_Witness ==
    /\ pc = "gather"
    /\ Len(graph.nodes) = 12
    /\ enrichment.i = 10
    /\ enrichment.status["n11@1"] = "running"
    /\ enrichment.status["n12@1"] = "done"
    /\ enrichment.enriched_data[1] = <<>>
    /\ enrichment.enriched_data[2] # <<>>

----------------------------------------------------------------------------
(* _generate_recommendations on its own: node lists with distinct names
   and analysis results with or without findings, handed to the last step
   of analyze_supply_chain *)

MaxRecNodes == 4

RecNames == <<"n1", "n2", "n3", "n4", "n5", "n6">>

RecNodeLists ==
    UNION {{[i \in 1..k |-> [id |-> RecNames[i], name |-> RecNames[i],
                             risk_score |-> r[i], trust_level |-> t[i]]] :
               r \in [1..k -> {0, 71}], t \in [1..k -> {"neutral", "untrusted"}]} :
           k \in 0..MaxRecNodes}

RecResults ==
    {[max_depth |-> d, average_degree_num |-> 0, average_degree_den |-> 1,
      risk_distribution |-> EmptyDict, trust_distribution |-> EmptyDict,
      critical_paths |-> <<>>, vulnerable_paths |-> <<>>,
      orphaned_dependencies |-> o,
      circular_dependencies |-> c,
      single_points_of_failure |-> f] :
        d \in {0, 11},
        o \in {<<>>, <<"n1", "n2", "n3", "n4">>},
        c \in {<<>>, <<<<"n1", "n2">>>>},
        f \in {<<>>, <<"n2">>}}

InitRecommend ==
    /\ sbom = EmptyDict
    /\ pc = "analyzed"
    /\ graph = EmptyGraph
    /\ nodes \in RecNodeLists
    /\ edges = <<>>
    /\ results \in RecResults
    /\ analysis = <<>>
    /\ error = ""
    /\ first_run = <<>>
    /\ faults = {}
    /\ predictor = NewPredictor
    /\ enrichment = NoEnrichment
    /\ monitor = NewMonitor(EmptyDict)

SpecRecommend == InitRecommend /\ [][DoFinish]_vars

\* the recommendations with a given tag, in order
Tagged(recs, tag) == SelectSeq(recs, LAMBDA r : r.tag = tag)

\* the first three elements of a list
FirstThree(s) == SubSeq(s, 1, Min2(3, Len(s)))

\* the names of the nodes of the list that satisfy the category, in order
HighRiskNames == [i \in 1..Len(HighRiskNodes(nodes)) |-> HighRiskNodes(nodes)[i].name]

UntrustedNames == [i \in 1..Len(UntrustedNodes(nodes)) |-> UntrustedNodes(nodes)[i].name]

\* one recommendation with the tag if the category is non-empty, none if not
EmittedIff(recs, tag, offenders) ==
    Len(Tagged(recs, tag)) = (IF offenders # <<>> THEN 1 ELSE 0)

\* the six general recommendations are the tail of the list, in order
GeneralTail(recs) ==
    /\ Len(recs) >= 6
    /\ SubSeq(recs, Len(recs) - 5, Len(recs)) = GeneralRecommendations
    /\ \A i \in 1..6 : GeneralRecommendations[i] = [tag |-> "GENERAL", count |-> i, names |-> <<>>]

\* C26: a conditional recommendation is emitted for a category (high-risk
\* nodes, untrusted nodes, circular dependencies, single points of failure,
\* orphaned dependencies) exactly when the category is non-empty, each one
\* names up to the first 3 offending components of its category, and the 6
\* general recommendations always form the tail.
C26_Recommendations ==
    pc = "done" =>
        LET recs == Result.recommendations
            Names(tag, offenders) ==
                \A i \in 1..Len(Tagged(recs, tag)) :
                    Tagged(recs, tag)[i].names = FirstThree(offenders)
        IN /\ EmittedIff(recs, "CRITICAL", HighRiskNames)
           /\ EmittedIff(recs, "SECURITY", UntrustedNames)
           /\ EmittedIff(recs, "ARCHITECTURE", results.circular_dependencies)
           /\ EmittedIff(recs, "RESILIENCE", results.single_points_of_failure)
           /\ EmittedIff(recs, "CLEANUP", results.orphaned_dependencies)
           /\ Names("CRITICAL", HighRiskNames)
           /\ Names("SECURITY", UntrustedNames)
           /\ Names("ARCHITECTURE", results.circular_dependencies)
           /\ Names("RESILIENCE", results.single_points_of_failure)
           /\ Names("CLEANUP", results.orphaned_dependencies)
           /\ GeneralTail(recs)

\* C26 as the code has it: the recommendations for high-risk and untrusted
\* nodes name up to the first 3 of them; those for circular dependencies,
\* single points of failure and orphaned dependencies carry the count only.
C26_RecommendationsAmended ==
    pc = "done" =>
        LET recs == Result.recommendations
            Names(tag, names) ==
                \A i \in 1..Len(Tagged(recs, tag)) : Tagged(recs, tag)[i].names = names
            Counts(tag, offenders) ==
                \A i \in 1..Len(Tagged(recs, tag)) : Tagged(recs, tag)[i].count = Len(offenders)
        IN /\ EmittedIff(recs, "CRITICAL", HighRiskNames)
           /\ EmittedIff(recs, "SECURITY", UntrustedNames)
           /\ EmittedIff(recs, "ARCHITECTURE", results.circular_dependencies)
           /\ EmittedIff(recs, "RESILIENCE", results.single_points_of_failure)
           /\ EmittedIff(recs, "CLEANUP", results.orphaned_dependencies)
           /\ Names("CRITICAL", FirstThree(HighRiskNames))
           /\ Names("SECURITY", FirstThree(UntrustedNames))
           /\ Names("ARCHITECTURE", <<>>)
           /\ Names("RESILIENCE", <<>>)
           /\ Names("CLEANUP", <<>>)
           /\ Counts("CRITICAL", HighRiskNames)
           /\ Counts("SECURITY", UntrustedNames)
           /\ Counts("ARCHITECTURE", results.circular_dependencies)
           /\ Counts("RESILIENCE", results.single_points_of_failure)
           /\ Counts("CLEANUP", results.orphaned_dependencies)
           /\ GeneralTail(recs)

\* four high-risk nodes, of which the recommendation names three, with
\* every other category non-empty as well
C26_Witness ==
    /\ pc = "done"
    /\ Len(HighRiskNames) = 4
    /\ Len(UntrustedNames) = 4
    /\ results.circular_dependencies # <<>>
    /\ results.single_points_of_failure # <<>>
    /\ results.orphaned_dependencies # <<>>
    /\ Tagged(Result.recommendations, "CRITICAL")[1].names = <<"n1", "n2", "n3">>

----------------------------------------------------------------------------
(* _perform_graph_analysis with a failing centrality computation: graphs
   without an edge (empty, a single node, several disconnected nodes), and
   any subset of the three networkx calls raising *)

CentralityFaultSets == SUBSET {<<GraphKey, CentralityMeasures[i]>> : i \in 1..Len(CentralityMeasures)}

CentralitySboms == {s \in CdxSboms : Len(ExtractDependencies(s)) = 0}

InitCentrality ==
    /\ sbom \in CentralitySboms
    /\ pc = "start"
    /\ graph = EmptyGraph
    /\ nodes = <<>>
    /\ edges = <<>>
    /\ results = EmptyDict
    /\ analysis = <<>>
    /\ error = ""
    /\ first_run = <<>>
    /\ faults \in CentralityFaultSets
    /\ predictor = NewPredictor
    /\ enrichment = NoEnrichment
    /\ monitor = NewMonitor(EmptyDict)

SpecCentrality == InitCentrality /\ [][Next]_vars

\* C27: when a centrality computation (betweenness, closeness or PageRank)
\* fails, _perform_graph_analysis does not propagate the exception and every
\* other field of the analysis result is still produced.
C27_CentralityContained ==
    [][(pc = "edges" /\ CentralityRaises /\ pc' # "edges") =>
           /\ pc' = "analyzed"
           /\ results' = PerformGraphAnalysis(graph, nodes, edges)]_vars

----------------------------------------------------------------------------
(* _calculate_trust_level over the trust information a node may carry:
   none at all, an empty or partial dictionary, and every combination of
   signature, maintainer reputation (in tenths) and incident count around
   the thresholds 0.8, 0.3 and 3 *)

Reputations == {0, 2, 3, 5, 8, 9, 10}

Incidents == {0, 3, 4, 10}

TrustInfos ==
    {EmptyDict,
     [signed |-> TRUE],
     [maintainer_reputation |-> 9],
     [maintainer_reputation |-> 2],
     [security_incidents |-> 4]}
    \cup {[signed |-> s, maintainer_reputation |-> r, security_incidents |-> n] :
            s \in BOOLEAN, r \in Reputations, n \in Incidents}

TrustNodeData ==
    {[name |-> "B", version |-> "2.0"]}
    \cup {[name |-> "B", version |-> "2.0", trust_info |-> t] : t \in TrustInfos}

TrustGraphs ==
    {AddNode(EmptyGraph, "B@2.0", b) : b \in TrustNodeData}
    \cup {AddNode(AddNode(EmptyGraph, "A@1.0", EnrichedA), "B@2.0", b) : b \in TrustNodeData}

InitTrust ==
    /\ sbom = EmptyDict
    /\ pc = "built"
    /\ graph \in TrustGraphs
    /\ nodes = <<>>
    /\ edges = <<>>
    /\ results = EmptyDict
    /\ analysis = <<>>
    /\ error = ""
    /\ first_run = <<>>
    /\ faults = {}
    /\ predictor = NewPredictor
    /\ enrichment = NoEnrichment
    /\ monitor = NewMonitor(EmptyDict)

SpecTrust == InitTrust /\ [][DoAnalyzeNodes]_vars

\* what the node carries, with the defaults of the three .get calls
SignedOf(n) == Get(Get(n.metadata, "trust_info", EmptyDict), "signed", FALSE)

ReputationOf(n) == Get(Get(n.metadata, "trust_info", EmptyDict), "maintainer_reputation", 5)

IncidentsOf(n) == Get(Get(n.metadata, "trust_info", EmptyDict), "security_incidents", 0)

\* C28: a signed component is VERIFIED whatever its reputation or incident
\* count; otherwise reputation > 0.8 gives TRUSTED and reputation < 0.3
\* SUSPICIOUS; UNTRUSTED only for an unsigned component with reputation in
\* [0.3, 0.8] and more than 3 incidents; every other case, a node without
\* trust data included, is NEUTRAL; only UNTRUSTED nodes are counted for the
\* 0.6 penalty.
C28_TrustPrecedence ==
    pc = "nodes" =>
        \A i \in 1..Len(nodes) :
            LET n == nodes[i]
                middle == 3 <= ReputationOf(n) /\ ReputationOf(n) <= 8
                penalised == \E j \in 1..Len(UntrustedNodes(nodes)) :
                                 UntrustedNodes(nodes)[j] = n
            IN /\ SignedOf(n) => n.trust_level = "verified"
               /\ (~SignedOf(n) /\ ReputationOf(n) > 8) => n.trust_level = "trusted"
               /\ (~SignedOf(n) /\ ReputationOf(n) < 3) => n.trust_level = "suspicious"
               /\ n.trust_level = "untrusted" <=>
                      (~SignedOf(n) /\ middle /\ IncidentsOf(n) > 3)
               /\ (~SignedOf(n) /\ middle /\ IncidentsOf(n) <= 3) => n.trust_level = "neutral"
               /\ "trust_info" \notin DOMAIN n.metadata => n.trust_level = "neutral"
               /\ penalised <=> (~SignedOf(n) /\ middle /\ IncidentsOf(n) > 3)

\* an unsigned node with many incidents whose high reputation keeps it
\* TRUSTED, next to nothing being counted for the penalty
C28_Witness ==
    /\ pc = "nodes"
    /\ \E i \in 1..Len(nodes) :
          /\ ~SignedOf(nodes[i])
          /\ ReputationOf(nodes[i]) = 9
          /\ IncidentsOf(nodes[i]) = 10
          /\ nodes[i].trust_level = "trusted"
    /\ UntrustedNodes(nodes) = <<>>

----------------------------------------------------------------------------
(* AlertManager of continuous-monitoring.py.  The configuration's
   notifications dictionary is the sequence of its <<channel name, channel
   configuration>> items in insertion order; alert_manager.log lists, in
   order, the database inserts and the send_notification calls the manager
   made, each with its alert and whether it returned (ok) or raised;
   alert_manager.raised names the exception that left the last create_alert
   call, "" if it returned. *)

\* the values of the AlertSeverity enum; AlertSeverity(value) raises
\* ValueError for any other value
AlertSeverities == {"info", "warning", "critical", "emergency"}

\* the keys of AlertManager.notification_channels
NotificationChannels == {"slack", "email", "webhook", "pagerduty"}

SeverityLevel(severity) ==
    CASE severity = "info" -> 1
      [] severity = "warning" -> 2
      [] severity = "critical" -> 3
      [] severity = "emergency" -> 4
      [] OTHER -> 0

\* the threshold compared with <=, so that an alert exactly at the
\* channel's min_severity is skipped
BelowThresholdInclusive(alert, min_severity) ==
    SeverityLevel(alert.severity) <= SeverityLevel(min_severity)

\* if self._severity_level(alert.severity) < self._severity_level(min_severity)
BelowThreshold(alert, min_severity) ==
    SeverityLevel(alert.severity) < SeverityLevel(min_severity)

LogEntry(op, channel, alert, ok) == [op |-> op, channel |-> channel, alert |-> alert, ok |-> ok]

\* the loop of _send_notifications from item i on
RECURSIVE SendNotificationsFrom(_, _, _, _)
SendNotificationsFrom(am, items, alert, i) ==
    IF i > Len(items) THEN am
    ELSE LET channel_name == items[i][1]
             channel_config == items[i][2]
             min_severity == Get(channel_config, "min_severity", "info")
         IN IF ~Get(channel_config, "enabled", FALSE)
            THEN SendNotificationsFrom(am, items, alert, i + 1)
            ELSE IF min_severity \notin AlertSeverities
            THEN [am EXCEPT !.raised = "ValueError"]
            ELSE IF BelowThreshold(alert, min_severity)
            THEN SendNotificationsFrom(am, items, alert, i + 1)
            ELSE IF channel_name \in NotificationChannels
            THEN SendNotificationsFrom(
                     [am EXCEPT !.log = Append(@, LogEntry("send_notification", channel_name, alert,
                                                           ~Fails(channel_name, "send_notification")))],
                     items, alert, i + 1)
            ELSE SendNotificationsFrom(am, items, alert, i + 1)

SendNotifications(am, config, alert) ==
    SendNotificationsFrom(am, Get(config, "notifications", <<>>), alert, 1)

MatchesRule(alert, rule) ==
    /\ "event_types" \in DOMAIN rule => alert.event_type \in Range(rule.event_types)
    /\ "min_severity" \in DOMAIN rule => ~BelowThreshold(alert, rule.min_severity)

\* _execute_response_action: the five action methods are not defined in the
\* class, so the call raises AttributeError inside the try and the action
\* is recorded with success False; an unknown action type records nothing
ResponseActions == {"create_ticket", "block_component", "quarantine_system",
                    "update_firewall", "send_webhook"}

RECURSIVE ExecuteAutomatedResponsesFrom(_, _, _, _)
ExecuteAutomatedResponsesFrom(am, rules, alert, i) ==
    IF i > Len(rules) THEN am
    ELSE IF MatchesRule(alert, rules[i]) /\ Get(rules[i], "action_type", None) \in ResponseActions
    THEN ExecuteAutomatedResponsesFrom(
             [am EXCEPT !.log = Append(@, LogEntry("alert_actions", rules[i].action_type, alert, FALSE))],
             rules, alert, i + 1)
    ELSE ExecuteAutomatedResponsesFrom(am, rules, alert, i + 1)

ExecuteAutomatedResponses(am, config, alert) ==
    ExecuteAutomatedResponsesFrom(
        am, Get(Get(config, "automated_responses", EmptyDict), "rules", <<>>), alert, 1)

\* create_alert: the insert, then the notifications, then the responses;
\* an exception of the insert or of _send_notifications leaves the call
CreateAlert(am, config, alert) ==
    IF Fails("security_alerts", "INSERT")
    THEN [am EXCEPT !.raised = "sqlite3.Error"]
    ELSE LET stored == [am EXCEPT !.security_alerts = Append(@, alert),
                                  !.log = Append(@, LogEntry("security_alerts", "", alert, TRUE)),
                                  !.raised = ""]
             notified == SendNotifications(stored, config, alert)
         IN IF notified.raised # "" THEN notified
            ELSE ExecuteAutomatedResponses(notified, config, alert)

MaxChannels == 2

ChannelNames == {"slack", "email", "sms"}

ChannelConfigs ==
    {EmptyDict,
     [enabled |-> FALSE],
     [enabled |-> TRUE],
     [enabled |-> TRUE, min_severity |-> "warning"],
     [enabled |-> TRUE, min_severity |-> "critical"],
     [enabled |-> TRUE, min_severity |-> "high"]}

NotificationConfigs ==
    UNION {{s \in [1..k -> ChannelNames \X ChannelConfigs] :
               \A i, j \in 1..k : i # j => s[i][1] # s[j][1]} : k \in 0..MaxChannels}

ResponseRules == {<<>>, <<[action_type |-> "create_ticket", min_severity |-> "critical"]>>}

AlertConfigs ==
    {[notifications |-> n, automated_responses |-> [rules |-> r]] :
        n \in NotificationConfigs, r \in ResponseRules}

AlertFaultSets ==
    SUBSET {<<"slack", "send_notification">>, <<"email", "send_notification">>,
            <<"security_alerts", "INSERT">>}

Alerts ==
    {[id |-> "a1", event_type |-> "critical_vulnerability", severity |-> s,
      affected_systems |-> <<"bom.json">>] : s \in AlertSeverities}

InitAlert ==
    /\ sbom = EmptyDict
    /\ pc = "alert"
    /\ graph = EmptyGraph
    /\ nodes = <<>>
    /\ edges = <<>>
    /\ results = EmptyDict
    /\ analysis = <<>>
    /\ error = ""
    /\ first_run = <<>>
    /\ faults \in AlertFaultSets
    /\ predictor = NewPredictor
    /\ enrichment = NoEnrichment
    /\ monitor \in {NewMonitor(c) : c \in AlertConfigs}

\* await self.alert_manager.create_alert(alert)
DoCreateAlert ==
    /\ pc = "alert"
    /\ \E alert \in Alerts :
          LET am == CreateAlert(monitor.alert_manager, monitor.config, alert)
          IN /\ monitor' = [monitor EXCEPT !.alert_manager = am]
             /\ pc' = IF am.raised # "" THEN "raised" ELSE "done"
             /\ error' = am.raised
    /\ UNCHANGED <<sbom, graph, nodes, edges, results, analysis>>
    /\ UNCHANGED <<first_run, faults, predictor, enrichment>>

SpecAlert == InitAlert /\ [][DoCreateAlert]_vars

\* the order INFO < WARNING < CRITICAL < EMERGENCY
SeverityOrder == <<"info", "warning", "critical", "emergency">>

AtLeast(a, b) ==
    \E i, j \in 1..Len(SeverityOrder) :
        /\ SeverityOrder[i] = a
        /\ SeverityOrder[j] = b
        /\ i >= j

\* the positions of the log at which a channel was attempted
Attempts(log, channel) ==
    {i \in 1..Len(log) : log[i].op = "send_notification" /\ log[i].channel = channel}

\* every enabled channel of the configuration has a min_severity of the enum
ValidThresholds(config) ==
    \A k \in 1..Len(config.notifications) :
        LET cc == config.notifications[k][2]
        IN ("enabled" \in DOMAIN cc /\ cc.enabled /\ "min_severity" \in DOMAIN cc)
               => cc.min_severity \in AlertSeverities

----------------------------------------------------------------------------
(* ContinuousMonitor.process_sbom_change.  monitor.scans maps the number of
   each call to its sbom_file, the await it is suspended at ("track" for
   track_sbom_security, "events" for a create_alert of
   _check_security_events, "failure" for the create_alert of the except
   branch; "returned" or "raised" once it is over), the alerts it has passed
   to create_alert, the alerts _check_security_events has still to create,
   and the exception of the create_alert call it awaits ("" if none).
   Calls started by the file watcher or by a scheduled scan run as tasks of
   one event loop: each action is the stretch of one call between two
   awaits. *)

MaxScans == 2

SbomFiles == {"a-bom.json", "b-bom.json"}

\* what track_sbom_security reported, as far as _check_security_events
\* reads it: components with critical vulnerabilities, components with
\* malware indicators, and whether the risk score exceeds the threshold
Reports ==
    {[critical |-> 0, malicious |-> 0, over_threshold |-> FALSE],
     [critical |-> 1, malicious |-> 0, over_threshold |-> FALSE],
     [critical |-> 0, malicious |-> 1, over_threshold |-> TRUE]}

MonitorConfigs ==
    {EmptyDict,
     [notifications |-> <<<<"slack", [enabled |-> TRUE, min_severity |-> "critical"]>>>>,
      automated_responses |-> [rules |-> <<>>]],
     [notifications |-> <<<<"slack", [enabled |-> TRUE, min_severity |-> "high"]>>>>,
      automated_responses |-> [rules |-> <<>>]]}

SecurityAlert(event_type, severity, sbom_file) ==
    [id |-> "", event_type |-> event_type, severity |-> severity,
     affected_systems |-> <<sbom_file>>]

\* the alerts _check_security_events creates for a report, in its order
EventAlerts(sbom_file, report) ==
    [i \in 1..report.critical |-> SecurityAlert("critical_vulnerability", "critical", sbom_file)]
    \o [i \in 1..report.malicious |-> SecurityAlert("malware_detected", "emergency", sbom_file)]
    \o (IF report.over_threshold
        THEN <<SecurityAlert("security_threshold_exceeded", "warning", sbom_file)>>
        ELSE <<>>)

\* await self.alert_manager.create_alert(alert) of call k: the manager
\* inserts, notifies and responds; the call resumes in a later step
HandAlert(m, k, alert) ==
    LET created == [alert EXCEPT !.id = <<k, Len(m.scans[k].alerts) + 1>>]
        am == CreateAlert(m.alert_manager, m.config, created)
    IN [m EXCEPT !.alert_manager = am,
                 !.scans[k].alerts = Append(@, created),
                 !.scans[k].awaited = am.raised]

\* the except branch without the increment of the error counter
ScanFailedUncounted(m, k) ==
    HandAlert([m EXCEPT !.scans[k].at = "failure",
                        !.scans[k].pending = <<>>],
              k, SecurityAlert("sbom_changed", "warning", m.scans[k].sbom_file))

\* except Exception: count the error and create the SBOM_CHANGED alert
ScanFailed(m, k) ==
    HandAlert([m EXCEPT !.sbom_scans_total.error = @ + 1,
                        !.scans[k].at = "failure",
                        !.scans[k].pending = <<>>],
              k, SecurityAlert("sbom_changed", "warning", m.scans[k].sbom_file))

\* _check_security_events up to its next create_alert, or to its end and
\* on to the increment of the success counter
CheckSecurityEvents(m, k) ==
    IF m.scans[k].pending = <<>>
    THEN [m EXCEPT !.sbom_scans_total.success = @ + 1,
                   !.scans[k].at = "returned",
                   !.scans[k].awaited = ""]
    ELSE HandAlert([m EXCEPT !.scans[k].at = "events",
                             !.scans[k].pending = Tail(@)],
                   k, Head(m.scans[k].pending))

InitMonitor ==
    /\ sbom = EmptyDict
    /\ pc = "monitoring"
    /\ graph = EmptyGraph
    /\ nodes = <<>>
    /\ edges = <<>>
    /\ results = EmptyDict
    /\ analysis = <<>>
    /\ error = ""
    /\ first_run = <<>>
    /\ faults = {}
    /\ predictor = NewPredictor
    /\ enrichment = NoEnrichment
    /\ monitor \in {NewMonitor(c) : c \in MonitorConfigs}

\* a call of process_sbom_change up to its first await
DoProcessSbomChange ==
    /\ pc = "monitoring"
    /\ Cardinality(DOMAIN monitor.scans) < MaxScans
    /\ \E sbom_file \in SbomFiles :
          LET k == Cardinality(DOMAIN monitor.scans) + 1
          IN monitor' = [monitor EXCEPT
                 !.sbom_scans_total.started = @ + 1,
                 !.scans = Update(@, [j \in {k} |->
                              [sbom_file |-> sbom_file, at |-> "track", alerts |-> <<>>,
                               pending |-> <<>>, awaited |-> ""]])]
    /\ UNCHANGED <<sbom, pc, graph, nodes, edges, results, analysis, error>>
    /\ UNCHANGED <<first_run, faults, predictor, enrichment>>

\* track_sbom_security returns a report or raises
DoTrackReturn ==
    /\ pc = "monitoring"
    /\ \E k \in DOMAIN monitor.scans :
          /\ monitor.scans[k].at = "track"
          /\ \/ monitor' = ScanFailed(monitor, k)
             \/ \E report \in Reports :
                   monitor' = CheckSecurityEvents(
                       [monitor EXCEPT !.scans[k].pending =
                            EventAlerts(monitor.scans[k].sbom_file, report)], k)
    /\ UNCHANGED <<sbom, pc, graph, nodes, edges, results, analysis, error>>
    /\ UNCHANGED <<first_run, faults, predictor, enrichment>>

\* a create_alert awaited by the call returns or raises
DoAlertReturn ==
    /\ pc = "monitoring"
    /\ \E k \in DOMAIN monitor.scans :
          LET call == monitor.scans[k]
          IN \/ /\ call.at = "events"
                /\ monitor' = IF call.awaited = ""
                              THEN CheckSecurityEvents(monitor, k)
                              ELSE ScanFailed(monitor, k)
             \/ /\ call.at = "failure"
                /\ monitor' = [monitor EXCEPT !.scans[k].at =
                                   IF call.awaited = "" THEN "returned" ELSE "raised"]
    /\ UNCHANGED <<sbom, pc, graph, nodes, edges, results, analysis, error>>
    /\ UNCHANGED <<first_run, faults, predictor, enrichment>>

NextMonitor ==
    \/ DoProcessSbomChange
    \/ DoTrackReturn
    \/ DoAlertReturn

SpecMonitor == InitMonitor /\ [][NextMonitor]_vars

\* the calls that are over
Completed == {k \in DOMAIN monitor.scans : monitor.scans[k].at \in {"returned", "raised"}}

\* the SBOM_CHANGED alerts call k has passed to the alert manager
FailureAlerts(k) ==
    {i \in 1..Len(monitor.scans[k].alerts) :
        monitor.scans[k].alerts[i].event_type = "sbom_changed"}

\* the calls that took the except branch
OnErrorPath == {k \in DOMAIN monitor.scans : monitor.scans[k].at \in {"failure", "raised"}}
                  \cup {k \in Completed : FailureAlerts(k) # {}}

\* C29: every call counts 'started' once and, when it completes, exactly
\* one of 'success' and 'error' once: started = success + error whenever no
\* call is in progress and started >= success + error otherwise; a call on
\* the error path passes exactly one WARNING alert of type SBOM_CHANGED
\* naming its file to the alert manager, a call on the success path none.
C29_ScanCounters ==
    LET c == monitor.sbom_scans_total
        calls == DOMAIN monitor.scans
    IN /\ c.started = Cardinality(calls)
       /\ c.started >= c.success + c.error
       /\ Completed = calls => c.started = c.success + c.error
       /\ c.error = Cardinality(OnErrorPath)
       /\ c.success = Cardinality(Completed \ OnErrorPath)
       /\ \A k \in calls :
              LET call == monitor.scans[k]
              IN /\ k \in OnErrorPath =>
                        /\ Cardinality(FailureAlerts(k)) = 1
                        /\ \A i \in FailureAlerts(k) :
                               /\ call.alerts[i].severity = "warning"
                               /\ call.alerts[i].affected_systems = <<call.sbom_file>>
                               /\ i = Len(call.alerts)
                 /\ k \notin OnErrorPath => FailureAlerts(k) = {}

\* two calls are over: one took the except branch after a create_alert of
\* _check_security_events had raised, the other completed without failure
C29_Witness ==
    /\ DOMAIN monitor.scans = {1, 2}
    /\ Completed = {1, 2}
    /\ monitor.sbom_scans_total = [started |-> 2, success |-> 1, error |-> 1]
    /\ \E k \in {1, 2} : Len(monitor.scans[k].alerts) = 2

====
